---------------------------- MODULE Spec2Model ----------------------------
(***************************************************************************)
(* Verification model of the UFC prediction pipeline:                      *)
(*   - transformers.py        (name normalisation, validation)             *)
(*   - import_service.py      (natural-key get-or-create, run_import)      *)
(*   - snapshot_calculator.py (point-in-time statistics)                   *)
(*   - predictor.py           (rule based predictor)                       *)
(*                                                                         *)
(* Text is modelled as a sequence of one-character strings so that         *)
(* lower-casing, stripping, splitting and substring tests are computed.    *)
(* Python None is NoneStr for text, NoneA for opaque labels and NoneN for  *)
(* numbers.  Percentages are kept in tenths of a percent, the predictor's  *)
(* floating point values in fixed point (see the predictor section).       *)
(***************************************************************************)
EXTENDS Integers, Sequences, FiniteSets, TLC

VARIABLES
    \* ---- calculate_stats harness -------------------------------------
    fight_history,   \* argument of calculate_stats: list of FightRecord
    stats,           \* CalculatedStats returned by calculate_stats
    pcStats,         \* "input" before the call, "done" after it
    \* ---- predictor harness --------------------------------------------
    features1,       \* FighterFeatures of one fighter
    features2,       \* FighterFeatures of the other fighter
    prediction,      \* Prediction returned by predict(features1, features2)
    predictionRev,   \* Prediction returned by predict(features2, features1)
    pcPredict,       \* which of the two calls have returned
    \* ---- storage (committed rows) -------------------------------------
    fighters,        \* table fighters
    events,          \* table events
    fights,          \* table fights
    snapshots,       \* table fighter_snapshots
    data_imports,    \* table data_imports
    \* ---- the ImportService the callers share --------------------------
    _fighter_cache,  \* ImportService._fighter_cache
    _event_cache,    \* ImportService._event_cache
    \* ---- what the latest calls were given and returned ----------------
    last_run,        \* latest run_import: adapter output, ImportResult, ...
    last_calc,       \* latest calculate_all_snapshots: its input and outcome
    import_runs,     \* number of run_import calls so far
    \* ---- deduplicate_fighters harness ---------------------------------
    dedup_input,     \* argument of deduplicate_fighters: list of RawFighter
    dedup_output,    \* the list deduplicate_fighters returned for it
    dedup_again,     \* the list returned when the output is passed again
    pcDedup,         \* "input", "once" after one pass, "twice" after two
    \* ---- normalize_name harness ----------------------------------------
    name_input,      \* argument of normalize_name
    name_output,     \* normalize_name(name_input)
    name_again,      \* normalize_name(name_output)
    pcName,          \* "input", "once" after one call, "twice" after two
    \* ---- _calculate_form_score harness --------------------------------
    form_input,      \* argument of _calculate_form_score: recent_form
    form_score,      \* the score returned for it, in hundredths
    form_swapped,    \* the score returned with W and L exchanged
    pcForm,          \* which of the two calls have returned
    \* ---- the data sources and the adapters over them ------------------
    kaggle_file,     \* the fights file of the KaggleAdapter: whether it exists, its rows
    espn_host,       \* how the ESPN API answers a request
    ufc_host,        \* how UFC.com answers a request
    adapter_call,    \* the last adapter operation called and how it ended
    \* ---- the orchestrator ---------------------------------------------
    last_update,     \* the ImportResult of the last update_event_results call
    \* ---- the prediction engine over the stored rows -------------------
    last_predicted,  \* the last predict_fight call: its fight, what it used
    \* ---- import runs that overlap, each in a session of its own -------
    sessions,        \* per run: where it is, what it has flushed, its caches
    \* ---- UFCAdapter._parse_fight_card harness -------------------------
    card_fights,     \* the fights the text of an event page was parsed into
    card_parsed      \* whether _parse_fight_card returned, and the list

statsVars == <<fight_history, stats, pcStats>>
predictVars == <<features1, features2, prediction, predictionRev, pcPredict>>

dbVars == <<fighters, events, fights, snapshots, data_imports>>
pipelineVars == <<fighters, events, fights, snapshots, data_imports,
                  _fighter_cache, _event_cache, last_run, last_calc, import_runs>>

dedupVars == <<dedup_input, dedup_output, dedup_again, pcDedup>>
nameVars == <<name_input, name_output, name_again, pcName>>
formVars == <<form_input, form_score, form_swapped, pcForm>>
adapterVars == <<kaggle_file, espn_host, ufc_host, adapter_call>>
cardVars == <<card_fights, card_parsed>>
extraVars == <<last_update, last_predicted, sessions, cardVars>>
callVars == <<dedupVars, nameVars, formVars, adapterVars, extraVars>>

vars == <<fight_history, stats, pcStats,
          features1, features2, prediction, predictionRev, pcPredict,
          fighters, events, fights, snapshots, data_imports,
          _fighter_cache, _event_cache, last_run, last_calc, import_runs,
          dedup_input, dedup_output, dedup_again, pcDedup,
          name_input, name_output, name_again, pcName,
          form_input, form_score, form_swapped, pcForm,
          kaggle_file, espn_host, ufc_host, adapter_call,
          last_update, last_predicted, sessions,
          card_fights, card_parsed>>

-----------------------------------------------------------------------------
(* Bounds                                                                  *)

MaxHist == 3        \* longest fight history given to calculate_stats

-----------------------------------------------------------------------------
(* Python values                                                           *)

NoneStr == <<"None">>     \* None where the code expects text
NoneA   == "<None>"       \* None where the model keeps an opaque label
NoneN   == -1             \* None where the code expects a number

Max(a, b) == IF a >= b THEN a ELSE b
Min(a, b) == IF a <= b THEN a ELSE b
Abs(a)    == IF a >= 0 THEN a ELSE -a

\* truthiness of optional text: None and "" are falsy
TruthyS(s) == s # NoneStr /\ s # <<>>
\* truthiness of an optional number: None and 0 are falsy
TruthyN(n) == n # NoneN /\ n # 0
\* truthiness of an opaque optional label
TruthyA(a) == a # NoneA /\ a # ""

-----------------------------------------------------------------------------
(* Characters and str methods                                              *)

UpperCase == <<"A","B","C","D","E","F","G","H","I","J","K","L","M",
               "N","O","P","Q","R","S","T","U","V","W","X","Y","Z">>
LowerCase == <<"a","b","c","d","e","f","g","h","i","j","k","l","m",
               "n","o","p","q","r","s","t","u","v","w","x","y","z">>

UpperSet == {UpperCase[i] : i \in 1..26}
LowerSet == {LowerCase[i] : i \in 1..26}

\* the lower-case letter of each upper-case letter, and the reverse
ToLower == [c \in UpperSet |-> LowerCase[CHOOSE i \in 1..26 : UpperCase[i] = c]]
ToUpper == [c \in LowerSet |-> UpperCase[CHOOSE i \in 1..26 : LowerCase[i] = c]]

IsUpper(c) == c \in UpperSet
IsLower(c) == c \in LowerSet
IsSpace(c) == c = " "

\* str.lower() on one character
LowerChar(c) == IF c \in UpperSet THEN ToLower[c] ELSE c

\* str.upper() on one character
UpperChar(c) == IF c \in LowerSet THEN ToUpper[c] ELSE c

\* str.lower()
Lower(s) == [i \in 1..Len(s) |-> LowerChar(s[i])]

\* str.upper()
Upper(s) == [i \in 1..Len(s) |-> UpperChar(s[i])]

\* needle in haystack (Python substring test)
Contains(needle, hay) ==
    \E i \in 0..(Len(hay) - Len(needle)) :
        \A k \in 1..Len(needle) : hay[i + k] = needle[k]

-----------------------------------------------------------------------------
(* snapshot_calculator.py : method classification                          *)

is_ko_method(method) ==
    IF ~TruthyS(method) THEN FALSE
    ELSE Contains(<<"k","o">>, Lower(method))
           \/ Contains(<<"t","k","o">>, Lower(method))

is_submission_method(method) ==
    IF ~TruthyS(method) THEN FALSE
    ELSE Contains(<<"s","u","b">>, Lower(method))

is_decision_method(method) ==
    IF ~TruthyS(method) THEN FALSE
    ELSE Contains(<<"d","e","c","i","s","i","o","n">>, Lower(method))
           \/ Contains(<<"d","e","c">>, Lower(method))

\* parse_time_to_seconds(time_str, round_num) with time_str = None, the only
\* value calculate_stats passes: FightRecord has no ending_time attribute
parse_time_to_seconds_none(round_num) == NoneN

-----------------------------------------------------------------------------
(* snapshot_calculator.py : CalculatedStats and calculate_stats            *)

\* CalculatedStats(): the dataclass defaults
CalculatedStats ==
    [wins |-> 0, losses |-> 0, draws |-> 0, no_contests |-> 0,
     ko_wins |-> 0, submission_wins |-> 0, decision_wins |-> 0,
     ko_losses |-> 0, submission_losses |-> 0, decision_losses |-> 0,
     current_win_streak |-> 0, current_lose_streak |-> 0,
     longest_win_streak |-> 0,
     finish_rate |-> NoneN, ko_rate |-> NoneN, submission_rate |-> NoneN,
     title_fight_wins |-> 0, title_fight_losses |-> 0,
     avg_fight_time_seconds |-> NoneN, fights_in_weight_class |-> 0,
     recent_wins |-> 0, recent_losses |-> 0]

\* round(num / den * 100, 1) in tenths of a percent, ties to even
RoundRate(num, den) ==
    LET q == (1000 * num) \div den
        r == (1000 * num) % den
    IN  IF 2 * r > den THEN q + 1
        ELSE IF 2 * r < den THEN q
        ELSE IF q % 2 = 0 THEN q ELSE q + 1

\* the loop-carried locals of calculate_stats
LoopInit ==
    [st |-> CalculatedStats, current_streak |-> 0, streak_is_wins |-> TRUE,
     longest_win_streak |-> 0, fight_times |-> <<>>]

\* streak tracking of the win branch (lines 309-315)
WinStreakStep(a) ==
    IF a.streak_is_wins
    THEN [a EXCEPT !.current_streak = a.current_streak + 1,
                   !.longest_win_streak =
                       Max(a.longest_win_streak, a.current_streak + 1)]
    ELSE [a EXCEPT !.current_streak = 1, !.streak_is_wins = TRUE]

\* streak tracking of the loss branch (lines 332-337)
LossStreakStep(a) ==
    IF ~a.streak_is_wins
    THEN [a EXCEPT !.current_streak = a.current_streak + 1]
    ELSE [a EXCEPT !.current_streak = 1, !.streak_is_wins = FALSE]

\* a draw as a plausible slip would treat it: the running streak survives
DrawStepKeepsStreak(a) ==
    [a EXCEPT !.st.draws = a.st.draws + 1]

\* the draw branch (lines 278-281)
DrawStep(a) ==
    [a EXCEPT !.st.draws = a.st.draws + 1, !.current_streak = 0]

\* one iteration of the loop body (lines 271-337)
LoopBody(a, fight, weight_class) ==
    IF fight.is_no_contest
    THEN [a EXCEPT !.st.no_contests = a.st.no_contests + 1]
    ELSE IF fight.is_draw
    THEN DrawStep(a)
    ELSE
      LET a1 == IF TruthyA(weight_class) /\ fight.weight_class = weight_class
                THEN [a EXCEPT !.st.fights_in_weight_class =
                                   a.st.fights_in_weight_class + 1]
                ELSE a
          actual_time == parse_time_to_seconds_none(fight.ending_round)
          a2 == IF TruthyS(fight.result_method) /\ TruthyN(fight.ending_round)
                   /\ TruthyN(actual_time)
                THEN [a1 EXCEPT !.fight_times = Append(a1.fight_times, actual_time)]
                ELSE a1
          m  == fight.result_method
      IN IF fight.won
         THEN LET a3 == [a2 EXCEPT
                    !.st.wins = a2.st.wins + 1,
                    !.st.ko_wins = a2.st.ko_wins
                        + (IF is_ko_method(m) THEN 1 ELSE 0),
                    !.st.submission_wins = a2.st.submission_wins
                        + (IF ~is_ko_method(m) /\ is_submission_method(m)
                           THEN 1 ELSE 0),
                    !.st.decision_wins = a2.st.decision_wins
                        + (IF ~is_ko_method(m) /\ ~is_submission_method(m)
                              /\ is_decision_method(m) THEN 1 ELSE 0),
                    !.st.title_fight_wins = a2.st.title_fight_wins
                        + (IF fight.is_title_fight THEN 1 ELSE 0)]
              IN WinStreakStep(a3)
         ELSE LET a3 == [a2 EXCEPT
                    !.st.losses = a2.st.losses + 1,
                    !.st.ko_losses = a2.st.ko_losses
                        + (IF is_ko_method(m) THEN 1 ELSE 0),
                    !.st.submission_losses = a2.st.submission_losses
                        + (IF ~is_ko_method(m) /\ is_submission_method(m)
                           THEN 1 ELSE 0),
                    !.st.decision_losses = a2.st.decision_losses
                        + (IF ~is_ko_method(m) /\ ~is_submission_method(m)
                              /\ is_decision_method(m) THEN 1 ELSE 0),
                    !.st.title_fight_losses = a2.st.title_fight_losses
                        + (IF fight.is_title_fight THEN 1 ELSE 0)]
              IN LossStreakStep(a3)

RECURSIVE LoopOver(_, _, _, _)
\* the for loop over fight_history (lines 271-337), entries i..Len(h)
LoopOver(a, h, i, weight_class) ==
    IF i > Len(h) THEN a
    ELSE LoopOver(LoopBody(a, h[i], weight_class), h, i + 1, weight_class)

SumSeq(s) == LET RECURSIVE S(_)
                 S(i) == IF i = 0 THEN 0 ELSE s[i] + S(i - 1)
             IN S(Len(s))

\* recent form over the last five entries (lines 363-371)
RecentFights(h) ==
    IF Len(h) >= 5 THEN SubSeq(h, Len(h) - 4, Len(h)) ELSE h

RecentCount(h, wantWon) ==
    Cardinality({i \in 1..Len(RecentFights(h)) :
        LET f == RecentFights(h)[i]
        IN ~(f.is_no_contest \/ f.is_draw) /\ f.won = wantWon})

\* SnapshotCalculator.calculate_stats(fight_history, weight_class)
calculate_stats(h, weight_class) ==
    IF h = <<>> THEN CalculatedStats
    ELSE
      LET \* lines 350-355: the rates, once the fighter has a win or a loss
          Rates(s2) ==
              IF s2.wins + s2.losses > 0
              THEN [s2 EXCEPT
                 !.finish_rate = IF s2.wins > 0
                                 THEN RoundRate(s2.ko_wins + s2.submission_wins,
                                                s2.wins)
                                 ELSE 0,
                 !.ko_rate = IF s2.wins > 0
                             THEN RoundRate(s2.ko_wins, s2.wins) ELSE 0,
                 !.submission_rate = IF s2.wins > 0
                             THEN RoundRate(s2.submission_wins, s2.wins) ELSE 0]
              ELSE s2
          \* lines 339-371 on what the loop leaves
          AfterLoop(a) ==
              LET s1 == IF a.streak_is_wins
                        THEN [a.st EXCEPT !.current_win_streak = a.current_streak,
                                          !.current_lose_streak = 0]
                        ELSE [a.st EXCEPT !.current_win_streak = 0,
                                          !.current_lose_streak = a.current_streak]
                  Timed(s3) ==
                      IF a.fight_times # <<>>
                      THEN [s3 EXCEPT !.avg_fight_time_seconds =
                                SumSeq(a.fight_times) \div Len(a.fight_times)]
                      ELSE s3
                  Recent(s4) ==
                      [s4 EXCEPT !.recent_wins = RecentCount(h, TRUE),
                                 !.recent_losses = RecentCount(h, FALSE)]
              IN Recent(Timed(Rates(
                     [s1 EXCEPT !.longest_win_streak = a.longest_win_streak])))
      IN AfterLoop(LoopOver(LoopInit, h, 1, weight_class))

-----------------------------------------------------------------------------
(* calculate_stats harness: the histories it is applied to                 *)

KO_TKO     == <<"K","O","/","T","K","O">>
Submission == <<"S","u","b","m","i","s","s","i","o","n">>
DecisionUnanimous ==
    <<"D","e","c","i","s","i","o","n"," ","(","U","n","a","n","i","m","o","u","s",")">>
DQ == <<"D","Q">>

\* FightRecord as get_fighter_history builds it (lines 229-243)
FightRecord(won, is_draw, is_no_contest, result_method) ==
    [won |-> won, is_draw |-> is_draw, is_no_contest |-> is_no_contest,
     result_method |-> result_method, weight_class |-> "Lightweight",
     is_title_fight |-> FALSE, ending_round |-> NoneN]

\* decided fights with each kind of method, and every combination of the
\* draw and no-contest flags (with winner set or not)
HistRecords ==
    {FightRecord(w, FALSE, FALSE, m) :
        w \in BOOLEAN, m \in {KO_TKO, Submission, DecisionUnanimous, NoneStr}}
    \cup {FightRecord(w, d, n, NoneStr) :
        w \in BOOLEAN, d \in BOOLEAN, n \in BOOLEAN}

BoundedSeq(S, n) == UNION {[1..k -> S] : k \in 0..n}

\* the pipeline before anything is stored
PipelineIdle ==
    /\ fighters = {}
    /\ events = {}
    /\ fights = {}
    /\ snapshots = {}
    /\ data_imports = {}
    /\ _fighter_cache = {}
    /\ _event_cache = {}
    /\ last_run = NoneA
    /\ last_calc = NoneA
    /\ import_runs = 0

\* the deduplicate_fighters harness before any call
DedupIdle ==
    /\ dedup_input = <<>>
    /\ dedup_output = <<>>
    /\ dedup_again = <<>>
    /\ pcDedup = "idle"

\* the normalize_name harness before any call
NameIdle ==
    /\ name_input = <<>>
    /\ name_output = <<>>
    /\ name_again = <<>>
    /\ pcName = "idle"

\* the _calculate_form_score harness before any call
FormIdle ==
    /\ form_input = <<>>
    /\ form_score = 0
    /\ form_swapped = 0
    /\ pcForm = {}

\* no adapter was called; the sources are there
AdaptersIdle ==
    /\ kaggle_file = [exists |-> TRUE, rows |-> <<>>]
    /\ espn_host = "up"
    /\ ufc_host = "up"
    /\ adapter_call = [adapter |-> "", op |-> "", source |-> "", raised |-> "",
                       kind |-> "", list |-> <<>>, flag |-> FALSE]

\* nothing else was called
MaxSessions == 2    \* import runs that may overlap

Runs == 1..MaxSessions

\* a run that has not begun: no input yet, nothing flushed, empty caches
\* and dicts, no ImportResult
NoSession ==
    [pc |-> "idle", input |-> 0,
     pending |-> [fighters |-> {}, events |-> {}, fights |-> {}],
     fighter_cache |-> {}, event_cache |-> {},
     fighters_dict |-> {}, events_dict |-> {},
     result |-> <<>>, aborted |-> FALSE, began_after |-> {}]

\* no predict_fight call yet
NoPrediction ==
    [calls |-> 0, fight_id |-> NoneN, error |-> "none",
     snapshot1 |-> NoneN, snapshot2 |-> NoneN,
     total_fights1 |-> 0, total_fights2 |-> 0]

\* no fight card parsed
NotParsed == [returned |-> FALSE, fights |-> <<>>]

CardIdle ==
    /\ card_fights = <<>>
    /\ card_parsed = NotParsed

ExtraIdle ==
    /\ CardIdle
    /\ last_update = [status |-> "idle", fights_processed |-> 0,
                      fights_updated |-> 0, errors |-> <<>>]
    /\ last_predicted = NoPrediction
    /\ sessions = [r \in Runs |-> NoSession]

\* the harnesses of the pure functions before any call
CallsIdle == DedupIdle /\ NameIdle /\ FormIdle /\ AdaptersIdle /\ ExtraIdle

\* the predictor harness before any call
PredictIdle ==
    /\ features1 = NoneA
    /\ features2 = NoneA
    /\ prediction = NoneA
    /\ predictionRev = NoneA
    /\ pcPredict = {}

InitStats ==
    /\ fight_history \in BoundedSeq(HistRecords, MaxHist)
    /\ stats = CalculatedStats
    /\ pcStats = "input"
    /\ PredictIdle
    /\ PipelineIdle
    /\ CallsIdle

\* a caller applies calculate_stats to the history (create_snapshot line 404)
CalcStats ==
    /\ pcStats = "input"
    /\ stats' = calculate_stats(fight_history, "Lightweight")
    /\ pcStats' = "done"
    /\ UNCHANGED <<fight_history, predictVars, pipelineVars, callVars>>

NextStats == CalcStats

SpecStats == InitStats /\ [][NextStats]_vars

-----------------------------------------------------------------------------
(* Reference notions the claims about streaks are stated with              *)

IsWin(f)  == ~f.is_no_contest /\ ~f.is_draw /\ f.won
IsLoss(f) == ~f.is_no_contest /\ ~f.is_draw /\ ~f.won

RECURSIVE TrailingRun(_, _)
\* number of consecutive wins (wantWin) or losses at the end of h,
\* no-contests ignored, anything else ending the run
TrailingRun(h, wantWin) ==
    IF h = <<>> THEN 0
    ELSE LET last  == h[Len(h)]
             front == SubSeq(h, 1, Len(h) - 1)
         IN IF last.is_no_contest THEN TrailingRun(front, wantWin)
            ELSE IF (IF wantWin THEN IsWin(last) ELSE IsLoss(last))
                 THEN 1 + TrailingRun(front, wantWin)
                 ELSE 0

\* the longest run of consecutive wins seen anywhere in h
LongestWinRun(h) ==
    LET runs == {TrailingRun(SubSeq(h, 1, k), TRUE) : k \in 0..Len(h)}
    IN CHOOSE m \in runs : \A r \in runs : r <= m

\* the history W, L, W of the scenario
IsWLW(h) ==
    /\ Len(h) = 3
    /\ IsWin(h[1]) /\ IsLoss(h[2]) /\ IsWin(h[3])

\* C9: calculate_stats reports current_win_streak / current_lose_streak as the
\* number of consecutive wins / losses at the end of the history (no-contests
\* ignored, a draw breaking the run), at most one of them non-zero, and for
\* W, L, W it reports wins=2, losses=1, current_win_streak=1,
\* longest_win_streak=1.
C9_CurrentStreaks ==
    pcStats = "done" =>
        /\ stats.current_win_streak = TrailingRun(fight_history, TRUE)
        /\ stats.current_lose_streak = TrailingRun(fight_history, FALSE)
        /\ stats.current_win_streak = 0 \/ stats.current_lose_streak = 0
        /\ IsWLW(fight_history) =>
              /\ stats.wins = 2 /\ stats.losses = 1
              /\ stats.current_win_streak = 1
              /\ stats.longest_win_streak = 1

\* the W, L, W scenario has been computed
C9_Witness ==
    /\ pcStats = "done"
    /\ IsWLW(fight_history)
    /\ stats.current_win_streak = 1

\* C10: longest_win_streak equals the longest run of consecutive wins in the
\* history and is never smaller than current_win_streak.
C10_LongestWinStreak ==
    pcStats = "done" =>
        /\ stats.longest_win_streak = LongestWinRun(fight_history)
        /\ stats.longest_win_streak >= stats.current_win_streak

\* the wins of h whose method satisfies the test, as indices into h
WinsWhere(h, Test(_)) ==
    {i \in 1..Len(h) : IsWin(h[i]) /\ Test(h[i].result_method)}

IsFinishMethod(method) == is_ko_method(method) \/ is_submission_method(method)
IsKoOnly(method) == is_ko_method(method)
IsSubOnly(method) == ~is_ko_method(method) /\ is_submission_method(method)
AnyMethod(method) == TRUE

\* rate (in tenths of a percent) is count / total as a percentage rounded to
\* one decimal: it is within half a tenth of the exact quotient
IsRoundedPercent(rate, count, total) ==
    /\ rate \in 0..1000
    /\ 2 * Abs(rate * total - 1000 * count) <= total

\* rate is the share of the wins of h that satisfy the test, 0 without wins
IsWinShare(rate, h, Test(_)) ==
    LET wins == Cardinality(WinsWhere(h, AnyMethod))
    IN IF wins > 0
       THEN IsRoundedPercent(rate, Cardinality(WinsWhere(h, Test)), wins)
       ELSE rate = 0

\* C11: for every history (the empty one and one of draws and no-contests
\* only included) finish_rate, ko_rate and submission_rate are numbers: the
\* share of the wins that ended by a finish / a knockout / a submission as a
\* 0-100 percentage rounded to one decimal, and 0 when there is no win.
C11_RatesDefined ==
    pcStats = "done" =>
        /\ IsWinShare(stats.finish_rate, fight_history, IsFinishMethod)
        /\ IsWinShare(stats.ko_rate, fight_history, IsKoOnly)
        /\ IsWinShare(stats.submission_rate, fight_history, IsSubOnly)

-----------------------------------------------------------------------------
(* predictor.py in fixed point                                             *)
(*                                                                         *)
(* Rates and scores (win_rate, accuracy, form score ...) are in            *)
(* thousandths, per-minute figures in thousandths, centimetres and years   *)
(* are whole numbers, weights are in hundredths.  An advantage is an       *)
(* integer number of AdvUnit-ths, AdvUnit = 1000 * 100 * 30, so that the   *)
(* divisions by 5.0, 6.0, 10.0 and 15.0 are exact.  Probabilities are in   *)
(* ten-thousandths.                                                        *)

AdvUnit  == 3000000      \* the advantage 1.0
ProbUnit == 10000        \* the probability 1.0
ExpUnit  == 10000        \* the value 1.0 inside the exponential
ExpTerms == 24           \* terms of the exponential series that are summed

\* PredictionWeights.default(), in hundredths
PredictionWeights ==
    [win_rate |-> 12, experience |-> 8, finish_rate |-> 5,
     striking_accuracy |-> 8, striking_defense |-> 7, strike_differential |-> 10,
     takedown_accuracy |-> 6, takedown_defense |-> 7, grappling_offense |-> 7,
     recent_form |-> 10, win_streak |-> 5, activity |-> 5,
     reach_advantage |-> 5, height_advantage |-> 3, age_advantage |-> 2]

\* FighterFeatures(fighter_id, fighter_name): the dataclass defaults
FighterFeatures(id, name) ==
    [fighter_id |-> id, fighter_name |-> name,
     win_rate |-> 0, finish_rate |-> 0, ko_rate |-> 0, submission_rate |-> 0,
     total_fights |-> 0, experience_score |-> 0,
     striking_accuracy |-> 0, striking_defense |-> 0, strikes_per_min |-> 0,
     strikes_absorbed_per_min |-> 0, strike_differential |-> 0,
     takedown_accuracy |-> 0, takedown_defense |-> 0,
     takedowns_per_15min |-> 0, submissions_per_15min |-> 0,
     win_streak |-> 0, loss_streak |-> 0, recent_form_score |-> 0,
     activity_score |-> 0,
     height_cm |-> NoneN, reach_cm |-> NoneN, age_years |-> NoneN]

\* _normalize_differential(diff1, diff2) * 5 (the division by 5.0 is folded
\* into the unit: a thousandth / 5 = 6 AdvUnit-ths per hundredth of weight)
_normalize_differential(diff1, diff2) == diff1 - diff2

\* _streak_advantage(f1, f2) * 6
_streak_advantage(f1, f2) ==
    (f1.win_streak - f1.loss_streak) - (f2.win_streak - f2.loss_streak)

\* _physical_advantage(val1, val2, scale) * scale
_physical_advantage(val1, val2) ==
    IF val1 = NoneN \/ val2 = NoneN THEN 0 ELSE val1 - val2

\* age_score(age) in thousandths
age_score(age) ==
    IF 28 <= age /\ age <= 32 THEN 1000
    ELSE IF age < 28 THEN 800 + (age - 22) * 33
    ELSE 1000 - (age - 32) * 50

\* _age_advantage(age1, age2) in thousandths
_age_advantage(age1, age2) ==
    IF age1 = NoneN \/ age2 = NoneN THEN 0
    ELSE age_score(age1) - age_score(age2)

\* _calculate_advantages(f1, f2, factors): the AdvantageBreakdown and the
\* factors appended, each factor as <<text, fighter it names>>
_calculate_advantages(f1, f2) ==
    LET w == PredictionWeights
        win_rate_adv == (f1.win_rate - f2.win_rate) * w.win_rate * 30
        exp_adv == (f1.experience_score - f2.experience_score) * w.experience * 30
        finish_adv == (f1.finish_rate - f2.finish_rate) * w.finish_rate * 30
        record_total == win_rate_adv + exp_adv + finish_adv
        acc_adv == (f1.striking_accuracy - f2.striking_accuracy)
                       * w.striking_accuracy * 30
        def_adv == (f1.striking_defense - f2.striking_defense)
                       * w.striking_defense * 30
        diff_adv == _normalize_differential(f1.strike_differential,
                                            f2.strike_differential)
                       * w.strike_differential * 6
        striking_total == acc_adv + def_adv + diff_adv
        td_acc_adv == (f1.takedown_accuracy - f2.takedown_accuracy)
                       * w.takedown_accuracy * 30
        td_def_adv == (f1.takedown_defense - f2.takedown_defense)
                       * w.takedown_defense * 30
        grap_off == ((f1.takedowns_per_15min + f1.submissions_per_15min)
                      - (f2.takedowns_per_15min + f2.submissions_per_15min))
                       * w.grappling_offense * 3
        grappling_total == td_acc_adv + td_def_adv + grap_off
        form_adv == (f1.recent_form_score - f2.recent_form_score)
                       * w.recent_form * 30
        streak_adv == _streak_advantage(f1, f2) * w.win_streak * 5000
        activity_adv == (f1.activity_score - f2.activity_score) * w.activity * 30
        form_total == form_adv + streak_adv + activity_adv
        reach_adv == _physical_advantage(f1.reach_cm, f2.reach_cm)
                       * w.reach_advantage * 3000
        height_adv == _physical_advantage(f1.height_cm, f2.height_cm)
                       * w.height_advantage * 2000
        age_adv == _age_advantage(f1.age_years, f2.age_years)
                       * w.age_advantage * 30
        physical_total == reach_adv + height_adv + age_adv
        fac1 == IF Abs(win_rate_adv) > 60000       \* 0.02
                THEN <<<<"has better win rate",
                         IF win_rate_adv > 0 THEN f1.fighter_name
                         ELSE f2.fighter_name>>>>
                ELSE <<>>
        fac2 == IF Abs(striking_total) > 90000     \* 0.03
                THEN <<<<"has striking advantage",
                         IF striking_total > 0 THEN f1.fighter_name
                         ELSE f2.fighter_name>>>>
                ELSE <<>>
        fac3 == IF Abs(grappling_total) > 90000    \* 0.03
                THEN <<<<"has grappling advantage",
                         IF grappling_total > 0 THEN f1.fighter_name
                         ELSE f2.fighter_name>>>>
                ELSE <<>>
        fac4 == IF f1.win_streak >= 3
                THEN <<<<"on win streak", f1.fighter_name>>>>
                ELSE IF f2.win_streak >= 3
                THEN <<<<"on win streak", f2.fighter_name>>>>
                ELSE <<>>
        fac5 == IF TruthyN(f1.reach_cm) /\ TruthyN(f2.reach_cm)
                   /\ Abs(f1.reach_cm - f2.reach_cm) >= 10
                THEN <<<<"has significant reach advantage",
                         IF f1.reach_cm - f2.reach_cm > 0 THEN f1.fighter_name
                         ELSE f2.fighter_name>>>>
                ELSE <<>>
    IN [record |-> record_total, striking |-> striking_total,
        grappling |-> grappling_total, form |-> form_total,
        physical |-> physical_total,
        factors |-> fac1 \o fac2 \o fac3 \o fac4 \o fac5]

\* AdvantageBreakdown.total
BreakdownTotal(b) == b.record + b.striking + b.grappling + b.form + b.physical

RECURSIVE ExpSeries(_, _, _)
\* sum of the series terms n, n+1, ... of e^(xm/1000), term being term n
ExpSeries(xm, n, term) ==
    IF n > ExpTerms \/ term = 0 THEN 0
    ELSE term + ExpSeries(xm, n + 1, (term * xm) \div ((n + 1) * 1000))

\* math.exp(x) for x = xm/1000 >= 0, in ExpUnit-ths
ExpPos(xm) == ExpSeries(xm, 0, ExpUnit)

\* _advantage_to_probability(advantage), in ProbUnit-ths
_advantage_to_probability(advantage) ==
    LET clamped == Max(-AdvUnit, Min(AdvUnit, advantage))
        \* |advantage * 3| in thousandths
        xm == Abs(clamped) \div 1000
        e  == ExpPos(xm)
    IN IF clamped >= 0
       THEN (e * ProbUnit) \div (e + ExpUnit)         \* 1 / (1 + 1/e)
       ELSE (ExpUnit * ProbUnit) \div (ExpUnit + e)   \* 1 / (1 + e)

\* _calculate_confidence(f1, f2, advantage_magnitude), in AdvUnit-ths
_calculate_confidence(f1, f2, advantage_magnitude) ==
    LET base == Min(AdvUnit, advantage_magnitude * 2)
        min_fights == Min(f1.total_fights, f2.total_fights)
        c1 == IF min_fights < 5 THEN (base * 6) \div 10
              ELSE IF min_fights < 10 THEN (base * 8) \div 10
              ELSE base
        c2 == IF advantage_magnitude < 150000 THEN (c1 * 7) \div 10 ELSE c1
    IN Min(AdvUnit, Max(0, c2))

\* _get_confidence_label(confidence)
_get_confidence_label(confidence) ==
    IF confidence >= 2100000 THEN "High"
    ELSE IF confidence >= 1200000 THEN "Medium"
    ELSE "Low"

\* _predict_method(f1, f2): <<method, probability in two-thousandths>>
_predict_method(f1, f2) ==
    LET ko2 == f1.ko_rate + f2.ko_rate                   \* 2 * avg_ko
        sub2 == f1.submission_rate + f2.submission_rate  \* 2 * avg_sub
        fin2 == f1.finish_rate + f2.finish_rate          \* 2 * avg_finish
    IN IF fin2 < 600 THEN <<"Decision", 1200>>
       ELSE IF ko2 > sub2 /\ ko2 > 600 THEN <<"KO/TKO", Min(1400, ko2 + 400)>>
       ELSE IF sub2 > 500 THEN <<"Submission", Min(1200, sub2 + 300)>>
       ELSE <<"Decision", 1000>>

\* the else branch of the winner selection with the probability not flipped
WinnerProbNotFlipped(total_advantage, win_probability) == win_probability

\* winner_prob of predict (lines 134-141)
WinnerProb(total_advantage, win_probability) ==
    IF total_advantage >= 0 THEN win_probability
    ELSE ProbUnit - win_probability

\* RuleBasedPredictor.predict(fighter1, fighter2)
predict(fighter1, fighter2) ==
    LET w1 == IF fighter1.total_fights < 3
              THEN <<<<"has limited fight history", fighter1.fighter_name>>>>
              ELSE <<>>
        w2 == IF fighter2.total_fights < 3
              THEN <<<<"has limited fight history", fighter2.fighter_name>>>>
              ELSE <<>>
        breakdown == _calculate_advantages(fighter1, fighter2)
        total_advantage == BreakdownTotal(breakdown)
        win_probability == _advantage_to_probability(total_advantage)
        winner == IF total_advantage >= 0 THEN fighter1 ELSE fighter2
        confidence == _calculate_confidence(fighter1, fighter2,
                                            Abs(total_advantage))
        method == _predict_method(fighter1, fighter2)
    IN [fighter1_id |-> fighter1.fighter_id,
        fighter2_id |-> fighter2.fighter_id,
        predicted_winner_id |-> winner.fighter_id,
        predicted_winner_name |-> winner.fighter_name,
        win_probability |-> WinnerProb(total_advantage, win_probability),
        confidence |-> confidence,
        confidence_label |-> _get_confidence_label(confidence),
        fighter1_advantage |-> total_advantage,
        advantage_breakdown |-> [k \in {"record", "striking", "grappling",
                                        "form", "physical"} |-> breakdown[k]],
        predicted_method |-> method[1],
        method_probability |-> method[2],
        factors |-> breakdown.factors,
        warnings |-> w1 \o w2]

-----------------------------------------------------------------------------
(* predictor harness: the feature vectors predict is applied to            *)

\* strong_fighter of tests/unit/test_prediction_engine.py
StrongFighter(id, name) ==
    [FighterFeatures(id, name) EXCEPT
        !.win_rate = 850, !.finish_rate = 600, !.ko_rate = 400,
        !.total_fights = 25, !.experience_score = 625,
        !.striking_accuracy = 550, !.striking_defense = 650,
        !.strikes_per_min = 5000, !.strike_differential = 1500,
        !.takedown_accuracy = 500, !.takedown_defense = 750,
        !.win_streak = 3, !.recent_form_score = 800, !.reach_cm = 190]

\* weak_fighter of tests/unit/test_prediction_engine.py
WeakFighter(id, name) ==
    [FighterFeatures(id, name) EXCEPT
        !.win_rate = 450, !.finish_rate = 300, !.ko_rate = 200,
        !.total_fights = 10, !.experience_score = 250,
        !.striking_accuracy = 400, !.striking_defense = 450,
        !.strikes_per_min = 2500, !.strike_differential = -500,
        !.takedown_accuracy = 300, !.takedown_defense = 550,
        !.loss_streak = 2, !.recent_form_score = -500, !.reach_cm = 175]

\* the evenly matched fighter of test_predict_equal_fighters
EvenFighter(id, name) ==
    [FighterFeatures(id, name) EXCEPT
        !.win_rate = 600, !.total_fights = 15, !.experience_score = 375]

\* a vector far outside the usual ranges (the dataclass validates nothing)
ExtremeFighter(id, name) ==
    [FighterFeatures(id, name) EXCEPT
        !.win_rate = 1000, !.total_fights = 40, !.experience_score = 1000,
        !.strike_differential = 60000, !.finish_rate = 1000,
        !.submission_rate = 1000]

FeatureVectors(id, name) ==
    {FighterFeatures(id, name), StrongFighter(id, name), WeakFighter(id, name),
     ExtremeFighter(id, name)}
    \cup {[EvenFighter(id, name) EXCEPT
              !.reach_cm = r, !.age_years = a, !.win_streak = s,
              !.total_fights = t] :
            r \in {NoneN, 175, 190}, a \in {NoneN, 25, 30, 35},
            s \in {0, 3}, t \in {2, 7, 15}}

InitPredict ==
    /\ features1 \in FeatureVectors("fighter-1", "Fighter One")
    /\ features2 \in FeatureVectors("fighter-2", "Fighter Two")
    /\ prediction = NoneA
    /\ predictionRev = NoneA
    /\ pcPredict = {}
    /\ fight_history = <<>>
    /\ stats = CalculatedStats
    /\ pcStats = "idle"
    /\ PipelineIdle
    /\ CallsIdle

\* a caller asks for predict(features1, features2)
PredictForward ==
    /\ "fwd" \notin pcPredict
    /\ prediction' = predict(features1, features2)
    /\ pcPredict' = pcPredict \cup {"fwd"}
    /\ UNCHANGED <<features1, features2, predictionRev, statsVars,
                   pipelineVars, callVars>>

\* a caller asks for the same matchup in the other order
PredictReverse ==
    /\ "rev" \notin pcPredict
    /\ predictionRev' = predict(features2, features1)
    /\ pcPredict' = pcPredict \cup {"rev"}
    /\ UNCHANGED <<features1, features2, prediction, statsVars,
                   pipelineVars, callVars>>

NextPredict == PredictForward \/ PredictReverse

SpecPredict == InitPredict /\ [][NextPredict]_vars

\* C7: predict(A, B).fighter1_advantage = -predict(B, A).fighter1_advantage and
\* both calls name the same fighter as predicted winner, for every pair,
\* also when the total advantage is exactly 0.
C7_Symmetry ==
    pcPredict = {"fwd", "rev"} =>
        /\ prediction.fighter1_advantage = -predictionRev.fighter1_advantage
        /\ prediction.predicted_winner_id = predictionRev.predicted_winner_id

\* the bounds of one returned Prediction
PredictionInBounds(p) ==
    /\ p.win_probability >= ProbUnit \div 2
    /\ p.win_probability <= ProbUnit
    /\ p.confidence >= 0
    /\ p.confidence <= AdvUnit
    /\ p.confidence_label \in {"Low", "Medium", "High"}

\* C8: predict returns a win_probability for the predicted winner in
\* [0.5, 1.0], a confidence in [0.0, 1.0] and a label Low, Medium or High.
C8_ProbabilityBounds ==
    /\ "fwd" \in pcPredict => PredictionInBounds(prediction)
    /\ "rev" \in pcPredict => PredictionInBounds(predictionRev)

\* a prediction for fighter 2 whose advantage was clamped: the probability
\* went through the clamp and the 1 - p flip
C8_Witness ==
    /\ "fwd" \in pcPredict
    /\ prediction.fighter1_advantage < -AdvUnit
    /\ prediction.predicted_winner_id = "fighter-2"
    /\ prediction.win_probability > 9000

-----------------------------------------------------------------------------
(* transformers.py : str methods used by the pipeline                      *)

Digits == {"0","1","2","3","4","5","6","7","8","9"}

IsLetter(c) == IsUpper(c) \/ IsLower(c)

\* \w of the regular expression in normalize_name
IsWordChar(c) == IsLetter(c) \/ c \in Digits \/ c = "_"

\* the sequence of the elements s[i] whose index satisfies Keep
FilterIdx(s, Keep(_)) ==
    LET F[i \in 0..Len(s)] ==
            IF i = 0 THEN <<>>
            ELSE IF Keep(i) THEN Append(F[i - 1], s[i]) ELSE F[i - 1]
    IN F[Len(s)]

\* str.strip(chars): drop the leading and trailing characters that are in chars
StripChars(s, chars) ==
    LET idx == {i \in 1..Len(s) : s[i] \notin chars}
    IN IF idx = {} THEN <<>>
       ELSE SubSeq(s, CHOOSE i \in idx : \A j \in idx : i <= j,
                      CHOOSE i \in idx : \A j \in idx : i >= j)

\* str.strip()
Strip(s) == StripChars(s, {" "})

\* str.title(): a letter that follows a letter is lower-cased, any other
\* letter is upper-cased
Title(s) ==
    [i \in 1..Len(s) |->
        IF ~IsLetter(s[i]) THEN s[i]
        ELSE IF i > 1 /\ IsLetter(s[i - 1]) THEN LowerChar(s[i])
        ELSE UpperChar(s[i])]

\* str.startswith
StartsWith(s, prefix) ==
    Len(prefix) <= Len(s) /\ SubSeq(s, 1, Len(prefix)) = prefix

\* the indices at which a whitespace separated word of s starts
WordStarts(s) ==
    {i \in 1..Len(s) : ~IsSpace(s[i]) /\ (i = 1 \/ IsSpace(s[i - 1]))}

\* the index at which the word that starts at i ends
WordEnd(s, i) ==
    CHOOSE j \in i..Len(s) :
        /\ \A k \in i..j : ~IsSpace(s[k])
        /\ (j = Len(s) \/ IsSpace(s[j + 1]))

\* set(str.split())
WordSet(s) == {SubSeq(s, i, WordEnd(s, i)) : i \in WordStarts(s)}

\* str.split()[-1]; <<>> when there is no word
LastWord(s) ==
    IF WordStarts(s) = {} THEN <<>>
    ELSE LET i == CHOOSE k \in WordStarts(s) : \A j \in WordStarts(s) : k >= j
         IN SubSeq(s, i, WordEnd(s, i))

\* str.split(maxsplit=1): at most two parts, the second is the rest of the
\* string after the whitespace that follows the first word
SplitMax1(s) ==
    IF WordStarts(s) = {} THEN <<>>
    ELSE LET i  == CHOOSE k \in WordStarts(s) : \A j \in WordStarts(s) : k <= j
             e  == WordEnd(s, i)
             r  == WordStarts(s) \ {i}
         IN IF r = {} THEN <<SubSeq(s, i, e)>>
            ELSE <<SubSeq(s, i, e),
                   SubSeq(s, CHOOSE k \in r : \A j \in r : k <= j, Len(s))>>

\* f"{first} {last}"
FullName(first_name, last_name) == first_name \o <<" ">> \o last_name

-----------------------------------------------------------------------------
(* transformers.py : normalize_name and name_similarity                    *)

\* unicodedata.normalize("NFKD", c) of one character: an accented letter
\* becomes the base letter followed by a combining mark
Decompose(c) ==
    CASE c = "e_acute" -> <<"e", "combining_acute">>
      [] c = "E_acute" -> <<"E", "combining_acute">>
      [] c = "o_umlaut" -> <<"o", "combining_diaeresis">>
      [] OTHER -> <<c>>

Combining == {"combining_acute", "combining_diaeresis"}

RECURSIVE NFKD(_)
NFKD(s) == IF s = <<>> THEN <<>> ELSE Decompose(Head(s)) \o NFKD(Tail(s))

\* re.sub(r"\s+", " ", s)
CollapseSpaces(s) ==
    FilterIdx(s, LAMBDA i : ~(IsSpace(s[i]) /\ i > 1 /\ IsSpace(s[i - 1])))

normalize_name(name) ==
    IF ~TruthyS(name) THEN <<>>
    ELSE LET n1 == SelectSeq(NFKD(name), LAMBDA c : c \notin Combining)
             n2 == Strip(Lower(n1))
             n3 == SelectSeq(n2, LAMBDA c :
                       IsWordChar(c) \/ IsSpace(c) \/ c = "-" \/ c = "'")
         IN CollapseSpaces(n3)

\* the scores of name_similarity in hundredths
SimilarityThreshold == 85

name_similarity(name1, name2) ==
    LET n1 == normalize_name(name1)
        n2 == normalize_name(name2)
        parts1 == WordSet(n1)
        parts2 == WordSet(n2)
        inter == Cardinality(parts1 \cap parts2)
        union == Cardinality(parts1 \cup parts2)
        jaccard == (100 * inter) \div union
    IN IF n1 = <<>> \/ n2 = <<>> THEN 0
       ELSE IF n1 = n2 THEN 100
       ELSE IF Contains(n1, n2) \/ Contains(n2, n1) THEN 90
       ELSE IF parts1 = {} \/ parts2 = {} THEN 0
       ELSE IF LastWord(n1) = LastWord(n2) THEN Min(100, jaccard + 30)
       ELSE jaccard

-----------------------------------------------------------------------------
(* adapters/base.py : the raw records an adapter returns                   *)

\* Text fields are character sequences, weight classes opaque labels, dates
\* day numbers, and float fields hundredths of their unit.

\* RawFighter with its defaults; wins .. raw_data are never read by the import
RawFighter(first_name, last_name) ==
    [first_name |-> first_name, last_name |-> last_name,
     nickname |-> NoneStr, date_of_birth |-> NoneN, nationality |-> NoneStr,
     hometown |-> NoneStr, height_cm |-> NoneN, weight_kg |-> NoneN,
     reach_cm |-> NoneN, leg_reach_cm |-> NoneN, weight_class |-> NoneA,
     stance |-> NoneStr, is_active |-> TRUE, ufc_id |-> NoneStr,
     espn_id |-> NoneStr]

\* RawEvent with its defaults
RawEvent(name, event_date) ==
    [name |-> name, event_date |-> event_date, venue |-> NoneStr,
     city |-> NoneStr, state |-> NoneStr, country |-> NoneStr,
     event_type |-> NoneStr, is_completed |-> FALSE, ufc_id |-> NoneStr,
     espn_id |-> NoneStr]

\* RawFight with its defaults; is_main_event, fight_order,
\* result_method_detail and ending_time are stored as given and read by
\* nothing the model covers, so they are left out
RawFight(fighter1_name, fighter2_name, weight_class) ==
    [fighter1_name |-> fighter1_name, fighter2_name |-> fighter2_name,
     weight_class |-> weight_class, event_name |-> NoneStr,
     event_date |-> NoneN, is_title_fight |-> FALSE, scheduled_rounds |-> 3,
     winner_name |-> NoneStr, result_method |-> NoneStr,
     ending_round |-> NoneN, is_no_contest |-> FALSE, is_draw |-> FALSE]

\* ImportResult with its defaults
ImportResult ==
    [status |-> "running",
     fighters_processed |-> 0, fighters_created |-> 0, fighters_updated |-> 0,
     events_processed |-> 0, events_created |-> 0, events_updated |-> 0,
     fights_processed |-> 0, fights_created |-> 0, fights_updated |-> 0,
     errors |-> <<>>]

\* ImportResult.add_error
result_add_error(result, error) ==
    [result EXCEPT !.errors = Append(@, error)]

-----------------------------------------------------------------------------
(* transformers.py : ValidationResult                                      *)

ValidationResult == [is_valid |-> TRUE, errors |-> <<>>, warnings |-> <<>>]

\* add_error without the assignment to is_valid
add_error_keeps_valid(v, message) ==
    [v EXCEPT !.errors = Append(@, message)]

add_error(v, message) ==
    [v EXCEPT !.errors = Append(@, message), !.is_valid = FALSE]

add_warning(v, message) ==
    [v EXCEPT !.warnings = Append(@, message)]

-----------------------------------------------------------------------------
(* transformers.py : FighterTransformer                                    *)

VALID_WEIGHT_CLASSES ==
    {"Strawweight", "Flyweight", "Bantamweight", "Featherweight",
     "Lightweight", "Welterweight", "Middleweight", "Light Heavyweight",
     "Heavyweight", "Women's Strawweight", "Women's Flyweight",
     "Women's Bantamweight", "Women's Featherweight", "Catch Weight",
     "Open Weight"}

Orthodox == <<"O","r","t","h","o","d","o","x">>
Southpaw == <<"S","o","u","t","h","p","a","w">>
VALID_STANCES == {Orthodox, Southpaw, <<"S","w","i","t","c","h">>, <<"O","p","e","n"," ","S","t","a","n","c","e">>}

\* date.today() as a day number
Today == 20000

\* the day counts of 18 and of 60 years of 365.25 days, rounded inwards
Age18Days == 6575
Age60Days == 21915

FighterValidate(fighter) ==
    LET v0 == ValidationResult
        v1 == IF ~TruthyS(fighter.first_name) /\ ~TruthyS(fighter.last_name)
              THEN add_error(v0, "Fighter must have at least first or last name")
              ELSE v0
        v2 == IF fighter.height_cm # NoneN
                 /\ (fighter.height_cm < 14000 \/ fighter.height_cm > 22000)
              THEN add_warning(v1, "Unusual height") ELSE v1
        v3 == IF fighter.reach_cm # NoneN
                 /\ (fighter.reach_cm < 15000 \/ fighter.reach_cm > 22000)
              THEN add_warning(v2, "Unusual reach") ELSE v2
        v4 == IF TruthyA(fighter.weight_class)
                 /\ fighter.weight_class \notin VALID_WEIGHT_CLASSES
              THEN add_warning(v3, "Unknown weight class") ELSE v3
        v5 == IF TruthyS(fighter.stance) /\ fighter.stance \notin VALID_STANCES
              THEN add_warning(v4, "Unknown stance") ELSE v4
        v6 == IF fighter.date_of_birth # NoneN
                 /\ (Today - fighter.date_of_birth < Age18Days
                     \/ Today - fighter.date_of_birth > Age60Days)
              THEN add_warning(v5, "Unusual age") ELSE v5
    IN v6

\* round(x, 1) of a value kept in hundredths (ties go to the even tenth)
Round1(x) ==
    LET q == x \div 10
        r == x % 10
    IN 10 * (IF r > 5 \/ (r = 5 /\ q % 2 = 1) THEN q + 1 ELSE q)

\* round(x, 1) if x else None
RoundOrNone(x) == IF TruthyN(x) THEN Round1(x) ELSE NoneN

\* one turn of the loop over the prefixes "Mc", "O'", "De" (lines 183-185)
ApplyPrefix(last_name, prefix) ==
    IF StartsWith(Lower(last_name), Lower(prefix))
    THEN prefix \o Title(SubSeq(last_name, Len(prefix) + 1, Len(last_name)))
    ELSE last_name

\* the stance_map loop (lines 199-208): the first key contained in the
\* stance decides
MapStance(stance) ==
    IF Contains(Lower(<<"O","r","t","h","o">>), Lower(stance)) THEN Orthodox
    ELSE IF Contains(Lower(<<"S","o","u","t","h">>), Lower(stance)) THEN Southpaw
    ELSE stance

FighterNormalize(fighter) ==
    LET first_name == IF TruthyS(fighter.first_name)
                      THEN Title(Strip(fighter.first_name)) ELSE <<>>
        last0 == IF TruthyS(fighter.last_name)
                 THEN Title(Strip(fighter.last_name)) ELSE <<>>
        last_name == ApplyPrefix(ApplyPrefix(ApplyPrefix(last0, <<"M","c">>),
                                             <<"O","'">>), <<"D","e">>)
        nick0 == IF TruthyS(fighter.nickname) THEN Strip(fighter.nickname)
                 ELSE NoneStr
        nickname == IF TruthyS(nick0) THEN StripChars(nick0, {"\"", "'"})
                    ELSE nick0
        st0 == IF TruthyS(fighter.stance) THEN Title(Strip(fighter.stance))
               ELSE fighter.stance
        stance == IF TruthyS(fighter.stance) /\ st0 \notin VALID_STANCES
                  THEN MapStance(st0) ELSE st0
    IN [fighter EXCEPT
          !.first_name = first_name,
          !.last_name = last_name,
          !.nickname = nickname,
          !.nationality = IF TruthyS(fighter.nationality)
                          THEN Title(Strip(fighter.nationality)) ELSE NoneStr,
          !.hometown = IF TruthyS(fighter.hometown)
                       THEN Strip(fighter.hometown) ELSE NoneStr,
          !.height_cm = RoundOrNone(fighter.height_cm),
          !.weight_kg = RoundOrNone(fighter.weight_kg),
          !.reach_cm = RoundOrNone(fighter.reach_cm),
          !.leg_reach_cm = RoundOrNone(fighter.leg_reach_cm),
          !.stance = stance]

-----------------------------------------------------------------------------
(* transformers.py : EventTransformer                                      *)

EventValidate(event) ==
    LET v0 == ValidationResult
        v1 == IF ~TruthyS(event.name)
              THEN add_error(v0, "Event must have a name") ELSE v0
        v2 == IF event.event_date = NoneN
              THEN add_error(v1, "Event must have a date") ELSE v1
        v3 == IF event.event_date # NoneN /\ event.event_date > Today
                 /\ event.is_completed
              THEN add_error(v2, "Future event cannot be marked as completed")
              ELSE v2
    IN v3

USA == <<"U","S","A">>
UK == <<"U","K">>

\* country_map (lines 279-288)
MapCountry(country) ==
    IF country \in {<<"U","s","a">>, <<"U","s">>, <<"U","n","i","t","e","d"," ","S","t","a","t","e","s">>} THEN USA
    ELSE IF country \in {<<"U","k">>, <<"U","n","i","t","e","d"," ","K","i","n","g","d","o","m">>} THEN UK
    ELSE IF country = <<"U","a","e">> THEN <<"U","A","E">>
    ELSE country

EventNormalize(event) ==
    LET country == IF TruthyS(event.country)
                   THEN Title(Strip(event.country)) ELSE NoneStr
    IN [event EXCEPT
          !.name = IF TruthyS(event.name) THEN Strip(event.name) ELSE <<>>,
          !.venue = IF TruthyS(event.venue) THEN Strip(event.venue) ELSE NoneStr,
          !.city = IF TruthyS(event.city)
                   THEN Title(Strip(event.city)) ELSE NoneStr,
          !.state = IF TruthyS(event.state) THEN Strip(event.state) ELSE NoneStr,
          !.country = IF TruthyS(country) THEN MapCountry(country) ELSE country]

-----------------------------------------------------------------------------
(* transformers.py : FightTransformer                                      *)

\* FightTransformer.validate without the check that the fighters differ
FightValidateSameAllowed(fight) ==
    LET v0 == ValidationResult
        v1 == IF ~TruthyS(fight.fighter1_name)
              THEN add_error(v0, "Fight must have fighter 1") ELSE v0
        v2 == IF ~TruthyS(fight.fighter2_name)
              THEN add_error(v1, "Fight must have fighter 2") ELSE v1
        v3 == IF ~TruthyA(fight.weight_class)
              THEN add_error(v2, "Fight must have weight class") ELSE v2
        v5 == IF fight.ending_round # NoneN
                 /\ (fight.ending_round < 1 \/ fight.ending_round > 5)
              THEN add_warning(v3, "Unusual round number") ELSE v3
        v6 == IF fight.scheduled_rounds \notin {3, 5}
              THEN add_warning(v5, "Unusual scheduled rounds") ELSE v5
    IN v6

FightValidate(fight) ==
    LET v0 == ValidationResult
        v1 == IF ~TruthyS(fight.fighter1_name)
              THEN add_error(v0, "Fight must have fighter 1") ELSE v0
        v2 == IF ~TruthyS(fight.fighter2_name)
              THEN add_error(v1, "Fight must have fighter 2") ELSE v1
        v3 == IF ~TruthyA(fight.weight_class)
              THEN add_error(v2, "Fight must have weight class") ELSE v2
        v4 == IF TruthyS(fight.fighter1_name) /\ TruthyS(fight.fighter2_name)
                 /\ normalize_name(fight.fighter1_name)
                      = normalize_name(fight.fighter2_name)
              THEN add_error(v3, "Fighter 1 and Fighter 2 cannot be the same")
              ELSE v3
        v5 == IF fight.ending_round # NoneN
                 /\ (fight.ending_round < 1 \/ fight.ending_round > 5)
              THEN add_warning(v4, "Unusual round number") ELSE v4
        v6 == IF fight.scheduled_rounds \notin {3, 5}
              THEN add_warning(v5, "Unusual scheduled rounds") ELSE v5
    IN v6

\* method_map (lines 370-382)
MapMethod(result_method) ==
    LET u == Upper(result_method)
    IN IF u = <<"T","K","O">> \/ u = <<"K","O">> THEN KO_TKO
       ELSE IF u = <<"S","U","B">> THEN Submission
       ELSE IF u = <<"D","E","C">> THEN <<"D","e","c","i","s","i","o","n">>
       ELSE IF u = <<"U","D">> THEN DecisionUnanimous
       ELSE IF u = <<"S","D">> THEN <<"D","e","c","i","s","i","o","n"," ","(","S","p","l","i","t",")">>
       ELSE IF u = <<"M","D">> THEN <<"D","e","c","i","s","i","o","n"," ","(","M","a","j","o","r","i","t","y",")">>
       ELSE result_method

FightNormalize(fight) ==
    [fight EXCEPT
       !.fighter1_name = IF TruthyS(fight.fighter1_name)
                         THEN Strip(fight.fighter1_name) ELSE <<>>,
       !.fighter2_name = IF TruthyS(fight.fighter2_name)
                         THEN Strip(fight.fighter2_name) ELSE <<>>,
       !.winner_name = IF TruthyS(fight.winner_name)
                       THEN Strip(fight.winner_name) ELSE NoneStr,
       !.result_method = IF TruthyS(fight.result_method)
                         THEN MapMethod(Strip(fight.result_method))
                         ELSE fight.result_method,
       !.event_name = IF TruthyS(fight.event_name)
                      THEN Strip(fight.event_name) ELSE NoneStr]

-----------------------------------------------------------------------------
(* transformers.py : Deduplicator                                          *)

\* Python's "a or b" on optional text, numbers and labels
OrS(a, b) == IF TruthyS(a) THEN a ELSE b
OrN(a, b) == IF TruthyN(a) THEN a ELSE b
OrA(a, b) == IF TruthyA(a) THEN a ELSE b

merge_fighters(primary, secondary) ==
    [first_name |-> OrS(primary.first_name, secondary.first_name),
     last_name |-> OrS(primary.last_name, secondary.last_name),
     nickname |-> OrS(primary.nickname, secondary.nickname),
     date_of_birth |-> IF primary.date_of_birth # NoneN
                       THEN primary.date_of_birth ELSE secondary.date_of_birth,
     nationality |-> OrS(primary.nationality, secondary.nationality),
     hometown |-> OrS(primary.hometown, secondary.hometown),
     height_cm |-> OrN(primary.height_cm, secondary.height_cm),
     weight_kg |-> OrN(primary.weight_kg, secondary.weight_kg),
     reach_cm |-> OrN(primary.reach_cm, secondary.reach_cm),
     leg_reach_cm |-> OrN(primary.leg_reach_cm, secondary.leg_reach_cm),
     weight_class |-> OrA(primary.weight_class, secondary.weight_class),
     stance |-> OrS(primary.stance, secondary.stance),
     is_active |-> primary.is_active,
     ufc_id |-> OrS(primary.ufc_id, secondary.ufc_id),
     espn_id |-> OrS(primary.espn_id, secondary.espn_id)]

\* find_duplicate_fighters: is (i, j) in the list it returns
IsDuplicatePair(fighter_list, i, j) ==
    name_similarity(FullName(fighter_list[i].first_name, fighter_list[i].last_name),
                    FullName(fighter_list[j].first_name, fighter_list[j].last_name))
        >= SimilarityThreshold

\* the loop over the duplicate pairs (lines 516-524), which find_duplicate_
\* fighters lists by ascending i, then ascending j; st.merged holds
\* merged_indices.get(i, fighter_list[i]) at every index
RECURSIVE MergeLoop(_, _, _, _)
MergeLoop(fighter_list, st, i, j) ==
    IF i > Len(fighter_list) THEN st
    ELSE IF j > Len(fighter_list) THEN MergeLoop(fighter_list, st, i + 1, i + 2)
    ELSE IF IsDuplicatePair(fighter_list, i, j)
            /\ i \notin st.to_remove /\ j \notin st.to_remove
    THEN MergeLoop(fighter_list,
                   [to_remove |-> st.to_remove \cup {j},
                    merged |-> [st.merged EXCEPT
                        ![i] = merge_fighters(st.merged[i], fighter_list[j])]],
                   i, j + 1)
    ELSE MergeLoop(fighter_list, st, i, j + 1)

\* deduplicate_fighters building its result without skipping to_remove
deduplicate_fighters_keeps_removed(fighter_list) ==
    IF fighter_list = <<>> THEN <<>>
    ELSE MergeLoop(fighter_list,
                   [to_remove |-> {}, merged |-> fighter_list], 1, 2).merged

deduplicate_fighters(fighter_list) ==
    IF fighter_list = <<>> THEN <<>>
    ELSE LET st == MergeLoop(fighter_list,
                             [to_remove |-> {}, merged |-> fighter_list], 1, 2)
         IN FilterIdx(st.merged, LAMBDA i : i \notin st.to_remove)

-----------------------------------------------------------------------------
(* db/models and repositories : rows, lookups and constraints              *)

\* A table is the set of its rows.  A row id is a positive number (uuid4 is
\* modelled by the least number that no row and no cached object carries).

SetMax(S) == CHOOSE x \in S : \A y \in S : x >= y

NextId(rows, held) == 1 + SetMax({r.id : r \in rows} \cup held \cup {0})

\* the Fighter built from the dict of _get_or_create_fighter (lines 70-88)
FighterRow(id, raw) == [id |-> id] @@ raw

\* the Event built from the dict of _get_or_create_event (lines 157-170)
EventRow(id, raw) ==
    [id |-> id, name |-> raw.name, date |-> raw.event_date,
     venue |-> raw.venue, city |-> raw.city, state |-> raw.state,
     country |-> raw.country, event_type |-> raw.event_type,
     is_completed |-> raw.is_completed, ufc_id |-> raw.ufc_id,
     espn_id |-> raw.espn_id]

\* a lookup by name that never finds a row
get_by_name_none(rows, first_name, last_name) == {}

\* FighterRepository.get_by_name: the rows the query selects
get_by_name(rows, first_name, last_name) ==
    {f \in rows : /\ Lower(f.first_name) = Lower(first_name)
                  /\ Lower(f.last_name) = Lower(last_name)}

\* EventRepository.get_by_name_and_date: the rows the query selects
get_by_name_and_date(rows, name, event_date) ==
    {e \in rows : Lower(e.name) = Lower(name) /\ e.date = event_date}

\* FightRepository.find_by_fighters_and_event: the rows the query selects
find_by_fighters_and_event(rows, fighter1_id, fighter2_id, event_id) ==
    {f \in rows :
        /\ f.event_id = event_id
        /\ \/ (f.fighter1_id = fighter1_id /\ f.fighter2_id = fighter2_id)
           \/ (f.fighter1_id = fighter2_id /\ f.fighter2_id = fighter1_id)}

\* unique=True on ufc_id and espn_id (fighters and events): may row be
\* written beside the other rows of its table
UniqueIdsOk(rows, row) ==
    \A r \in rows : r.id # row.id =>
        /\ (row.ufc_id # NoneStr => r.ufc_id # row.ufc_id)
        /\ (row.espn_id # NoneStr => r.espn_id # row.espn_id)

\* the foreign keys, NOT NULL columns and the CheckConstraint of fights
FightConstraintsOk(fighter_rows, event_rows, row) ==
    /\ \E e \in event_rows : e.id = row.event_id
    /\ \E f \in fighter_rows : f.id = row.fighter1_id
    /\ \E f \in fighter_rows : f.id = row.fighter2_id
    /\ (row.winner_id # NoneN => \E f \in fighter_rows : f.id = row.winner_id)
    /\ row.weight_class # NoneA
    /\ row.fighter1_id # row.fighter2_id

-----------------------------------------------------------------------------
(* import_service.py : caches and lookup dictionaries                      *)

\* A dict is the set of its entries, one per key.
DictHas(d, key) == \E e \in d : e.key = key
DictGet(d, key) == CHOOSE e \in d : e.key = key
DictPut(d, entry) == {e \in d : e.key # entry.key} \cup {entry}

\* str(x) of optional text inside an f-string: None prints as "None"
FormatOpt(s) == IF s = NoneStr THEN <<"N","o","n","e">> ELSE s

\* f"{name}_{event_date}": the date prints with a fixed width, so the text
\* determines the pair and the pair is kept instead
EventKey(name, event_date) == <<FormatOpt(name), event_date>>

\* the entry kept for a Fighter object: its id
FighterEntry(key, id) == [key |-> key, id |-> id]

\* the entry kept for an Event object: its id and the attribute that
\* _create_fight reads
EventEntry(key, id, is_completed) ==
    [key |-> key, id |-> id, is_completed |-> is_completed]

\* one line of ImportResult.errors: the fixed text, the name(s) formatted
\* into it and the validation or exception message
ErrorLine(text, subject, message) == <<text, subject, message>>

\* the state an import run works on: the tables as the session sees them,
\* the service's caches, the ImportResult, and whether a failed flush has
\* left the session's transaction rolled back (every later statement then
\* raises PendingRollbackError); taken holds the ids of the rows that other
\* sessions have flushed and not committed, which a new uuid4 differs from
NoneTaken == [fighters |-> {}, events |-> {}, fights |-> {}]

Ctx(fighter_rows, event_rows, fight_rows, fcache, ecache) ==
    [fighters |-> fighter_rows, events |-> event_rows, fights |-> fight_rows,
     fighter_cache |-> fcache, event_cache |-> ecache,
     result |-> ImportResult, aborted |-> FALSE,
     taken |-> NoneTaken]

\* ids that objects held by the service, or rows another session has
\* flushed, carry
HeldFighterIds(ctx) == {e.id : e \in ctx.fighter_cache} \cup ctx.taken.fighters
HeldEventIds(ctx) == {e.id : e \in ctx.event_cache} \cup ctx.taken.events

-----------------------------------------------------------------------------
(* import_service.py : fighters                                            *)

\* The operators below return the context they leave behind together with
\* the object they return (its id) and exc, the name of the exception they
\* raise ("" when they return normally).

_get_or_create_fighter(ctx, raw) ==
    LET cache_key == normalize_name(FullName(raw.first_name, raw.last_name))
        existing == get_by_name(ctx.fighters, raw.first_name, raw.last_name)
        id == NextId(ctx.fighters, HeldFighterIds(ctx))
        row == FighterRow(id, raw)
    IN IF DictHas(ctx.fighter_cache, cache_key)
       THEN [ctx |-> ctx, id |-> DictGet(ctx.fighter_cache, cache_key).id,
             exc |-> ""]
       ELSE IF ctx.aborted
       THEN [ctx |-> ctx, id |-> NoneN, exc |-> "PendingRollbackError"]
       ELSE IF Cardinality(existing) > 1
       THEN [ctx |-> ctx, id |-> NoneN, exc |-> "MultipleResultsFound"]
       ELSE IF existing # {}
       THEN LET e == CHOOSE f \in existing : TRUE
            IN [ctx |-> [ctx EXCEPT !.fighter_cache =
                            DictPut(@, FighterEntry(cache_key, e.id))],
                id |-> e.id, exc |-> ""]
       ELSE IF ~UniqueIdsOk(ctx.fighters, row)
       THEN [ctx |-> [ctx EXCEPT !.aborted = TRUE], id |-> NoneN,
             exc |-> "IntegrityError"]
       ELSE [ctx |-> [ctx EXCEPT
                        !.fighters = @ \cup {row},
                        !.fighter_cache =
                            DictPut(@, FighterEntry(cache_key, id))],
             id |-> id, exc |-> ""]

\* "if raw.x and not fighter.x: updates[x] = raw.x" that overwrites a stored
\* value
FillSOverwrite(stored, incoming) ==
    IF TruthyS(incoming) THEN incoming ELSE stored

\* "if raw.x and not fighter.x: updates[x] = raw.x" for a text field
FillS(stored, incoming) ==
    IF TruthyS(incoming) /\ ~TruthyS(stored) THEN incoming ELSE stored

\* the same guard for a float field
FillN(stored, incoming) ==
    IF TruthyN(incoming) /\ ~TruthyN(stored) THEN incoming ELSE stored

\* the same guard for a date field (a date is always truthy)
FillD(stored, incoming) ==
    IF incoming # NoneN /\ stored = NoneN THEN incoming ELSE stored

_update_fighter(ctx, fighter, raw) ==
    LET updated == [fighter EXCEPT
            !.nickname = FillS(fighter.nickname, raw.nickname),
            !.date_of_birth = FillD(fighter.date_of_birth, raw.date_of_birth),
            !.nationality = FillS(fighter.nationality, raw.nationality),
            !.hometown = FillS(fighter.hometown, raw.hometown),
            !.height_cm = FillN(fighter.height_cm, raw.height_cm),
            !.weight_kg = FillN(fighter.weight_kg, raw.weight_kg),
            !.reach_cm = FillN(fighter.reach_cm, raw.reach_cm),
            !.stance = FillS(fighter.stance, raw.stance),
            !.ufc_id = FillS(fighter.ufc_id, raw.ufc_id),
            !.espn_id = FillS(fighter.espn_id, raw.espn_id)]
    IN IF updated = fighter
       THEN [ctx |-> ctx, id |-> fighter.id, exc |-> ""]
       ELSE IF ~UniqueIdsOk(ctx.fighters, updated)
       THEN [ctx |-> [ctx EXCEPT !.aborted = TRUE], id |-> NoneN,
             exc |-> "IntegrityError"]
       ELSE [ctx |-> [ctx EXCEPT
                        !.fighters = (@ \ {fighter}) \cup {updated}],
             id |-> fighter.id, exc |-> ""]

\* the validation loop of import_fighters (lines 240-248)
RECURSIVE ValidateFighters(_, _, _)
ValidateFighters(st, fighters_in, i) ==
    IF i > Len(fighters_in) THEN st
    ELSE LET raw == fighters_in[i]
             validation == FighterValidate(raw)
             messages == [k \in 1..Len(validation.errors) |->
                            ErrorLine("Fighter validation", <<>>,
                                      validation.errors[k])]
         IN IF ~validation.is_valid
            THEN ValidateFighters(
                     [st EXCEPT !.result.errors = @ \o messages],
                     fighters_in, i + 1)
            ELSE ValidateFighters(
                     [st EXCEPT !.valid_fighters =
                                    Append(@, FighterNormalize(raw))],
                     fighters_in, i + 1)

\* one turn of the import loop of import_fighters (lines 255-277)
ImportFighter(st, raw) ==
    LET ctx == st.ctx
        cache_key == normalize_name(FullName(raw.first_name, raw.last_name))
        existing == get_by_name(ctx.fighters, raw.first_name, raw.last_name)
        Imported(r) ==
            IF r.exc # ""
            THEN [st EXCEPT !.ctx = [r.ctx EXCEPT !.result = result_add_error(@,
                      ErrorLine("Failed to import fighter",
                                FullName(raw.first_name, raw.last_name), r.exc))]]
            ELSE [ctx |-> [r.ctx EXCEPT
                      !.result.fighters_updated =
                          IF existing # {} THEN @ + 1 ELSE @,
                      !.result.fighters_created =
                          IF existing # {} THEN @ ELSE @ + 1],
                  imported |-> DictPut(st.imported, FighterEntry(cache_key, r.id))]
    IN Imported(
           IF ctx.aborted
           THEN [ctx |-> ctx, id |-> NoneN, exc |-> "PendingRollbackError"]
           ELSE IF Cardinality(existing) > 1
           THEN [ctx |-> ctx, id |-> NoneN, exc |-> "MultipleResultsFound"]
           ELSE IF existing # {}
           THEN _update_fighter(ctx, CHOOSE f \in existing : TRUE, raw)
           ELSE _get_or_create_fighter(ctx, raw))

RECURSIVE ImportFightersLoop(_, _, _)
ImportFightersLoop(st, deduped, i) ==
    IF i > Len(deduped) THEN st
    ELSE ImportFightersLoop(ImportFighter(st, deduped[i]), deduped, i + 1)

\* import_fighters: returns the context and the dict "imported"
import_fighters(ctx, fighters_in) ==
    LET v == ValidateFighters([result |-> ctx.result, valid_fighters |-> <<>>],
                              fighters_in, 1)
        deduped == deduplicate_fighters(v.valid_fighters)
        ctx1 == [ctx EXCEPT !.result =
                    [v.result EXCEPT !.fighters_processed = Len(deduped)]]
    IN ImportFightersLoop([ctx |-> ctx1, imported |-> {}], deduped, 1)

-----------------------------------------------------------------------------
(* import_service.py : events                                              *)

_get_or_create_event(ctx, raw) ==
    LET cache_key == EventKey(raw.name, raw.event_date)
        existing == get_by_name_and_date(ctx.events, raw.name, raw.event_date)
        id == NextId(ctx.events, HeldEventIds(ctx))
        row == EventRow(id, raw)
    IN IF DictHas(ctx.event_cache, cache_key)
       THEN [ctx |-> ctx, event |-> DictGet(ctx.event_cache, cache_key),
             exc |-> ""]
       ELSE IF ctx.aborted
       THEN [ctx |-> ctx, event |-> EventEntry(cache_key, NoneN, FALSE),
             exc |-> "PendingRollbackError"]
       ELSE IF Cardinality(existing) > 1
       THEN [ctx |-> ctx, event |-> EventEntry(cache_key, NoneN, FALSE),
             exc |-> "MultipleResultsFound"]
       ELSE IF existing # {}
       THEN LET e == CHOOSE x \in existing : TRUE
                entry == EventEntry(cache_key, e.id, e.is_completed)
            IN [ctx |-> [ctx EXCEPT !.event_cache = DictPut(@, entry)],
                event |-> entry, exc |-> ""]
       ELSE IF ~UniqueIdsOk(ctx.events, row)
       THEN [ctx |-> [ctx EXCEPT !.aborted = TRUE],
             event |-> EventEntry(cache_key, NoneN, FALSE),
             exc |-> "IntegrityError"]
       ELSE LET entry == EventEntry(cache_key, id, raw.is_completed)
            IN [ctx |-> [ctx EXCEPT !.events = @ \cup {row},
                                    !.event_cache = DictPut(@, entry)],
                event |-> entry, exc |-> ""]

\* one turn of the loop of import_events (lines 298-327)
ImportEvent(st, raw) ==
    LET ctx == st.ctx
        validation == EventValidate(raw)
        normalized == EventNormalize(raw)
        Rejected(errors) ==
            [st EXCEPT !.ctx.result.errors = @ \o
                [k \in 1..Len(errors) |->
                    ErrorLine("Event validation", <<>>, errors[k])]]
        Imported(existing, cache_key, r) ==
            IF r.exc # ""
            THEN [st EXCEPT !.ctx = [r.ctx EXCEPT !.result = result_add_error(@,
                      ErrorLine("Failed to import event", FormatOpt(raw.name),
                                r.exc))]]
            ELSE [ctx |-> [r.ctx EXCEPT
                      !.result.events_updated =
                          IF existing # {} THEN @ + 1 ELSE @,
                      !.result.events_created =
                          IF existing # {} THEN @ ELSE @ + 1],
                  imported |-> DictPut(st.imported,
                                  [r.event EXCEPT !.key = cache_key])]
        \* lines 310-324: look the event up, then leave it or create it
        Lookup(event, existing, cache_key) ==
            Imported(existing, cache_key,
                IF ctx.aborted
                THEN [ctx |-> ctx, event |-> EventEntry(cache_key, NoneN, FALSE),
                      exc |-> "PendingRollbackError"]
                ELSE IF Cardinality(existing) > 1
                THEN [ctx |-> ctx, event |-> EventEntry(cache_key, NoneN, FALSE),
                      exc |-> "MultipleResultsFound"]
                ELSE IF existing # {}
                THEN LET e == CHOOSE x \in existing : TRUE
                     IN [ctx |-> ctx,
                         event |-> EventEntry(cache_key, e.id, e.is_completed),
                         exc |-> ""]
                ELSE _get_or_create_event(ctx, event))
        Normalized(event) ==
            Lookup(event,
                   get_by_name_and_date(ctx.events, event.name, event.event_date),
                   EventKey(event.name, event.event_date))
    IN IF ~validation.is_valid
       THEN Rejected(validation.errors)
       ELSE Normalized(normalized)

RECURSIVE ImportEventsLoop(_, _, _)
ImportEventsLoop(st, events_in, i) ==
    IF i > Len(events_in) THEN st
    ELSE ImportEventsLoop(ImportEvent(st, events_in[i]), events_in, i + 1)

\* import_events: returns the context and the dict "imported"
import_events(ctx, events_in) ==
    ImportEventsLoop(
        [ctx |-> [ctx EXCEPT !.result.events_processed = Len(events_in)],
         imported |-> {}],
        events_in, 1)

-----------------------------------------------------------------------------
(* import_service.py : fights                                              *)

\* the Fight built from the dict of _create_fight (lines 195-218)
FightRow(id, raw, event, fighter1_id, fighter2_id, winner_id) ==
    [id |-> id, event_id |-> event.id,
     fighter1_id |-> fighter1_id, fighter2_id |-> fighter2_id,
     weight_class |-> raw.weight_class,
     is_title_fight |-> raw.is_title_fight,
     scheduled_rounds |-> raw.scheduled_rounds,
     winner_id |-> winner_id,
     result_method |-> raw.result_method,
     ending_round |-> raw.ending_round,
     is_no_contest |-> raw.is_no_contest, is_draw |-> raw.is_draw,
     status |-> IF event.is_completed \/ raw.is_no_contest \/ raw.is_draw
                THEN "completed" ELSE "scheduled"]

\* lines 364-378: the event of the fight, from the dict or made on the fly;
\* found tells whether "event" is an Event or None
ResolveEvent(st, normalized) ==
    LET event_key == EventKey(normalized.event_name, normalized.event_date)
        r == _get_or_create_event(st.ctx,
                 [RawEvent(normalized.event_name, normalized.event_date)
                     EXCEPT !.is_completed = TRUE])
    IN IF DictHas(st.events, event_key)
       THEN [st |-> st, found |-> TRUE, event |-> DictGet(st.events, event_key),
             exc |-> ""]
       ELSE IF TruthyS(normalized.event_name) /\ normalized.event_date # NoneN
       THEN IF r.exc # ""
            THEN [st |-> [st EXCEPT !.ctx = r.ctx], found |-> FALSE,
                  event |-> r.event, exc |-> r.exc]
            ELSE [st |-> [st EXCEPT !.ctx = r.ctx,
                                    !.events = DictPut(@,
                                        [r.event EXCEPT !.key = event_key])],
                  found |-> TRUE, event |-> r.event, exc |-> ""]
       ELSE [st |-> st, found |-> FALSE,
             event |-> EventEntry(event_key, NoneN, FALSE), exc |-> ""]

\* lines 395-405 (and 407-417): the fighter that was not in the dict
\* when it was looked up (present tells whether it was)
ResolveFighter(st, present, name, key, weight_class) ==
    LET parts == SplitMax1(name)
        raw == [RawFighter(IF Len(parts) > 0 THEN parts[1] ELSE <<>>,
                           IF Len(parts) > 1 THEN parts[2] ELSE <<>>)
                   EXCEPT !.weight_class = weight_class]
        r == _get_or_create_fighter(st.ctx, raw)
    IN IF present
       THEN [st |-> st, id |-> DictGet(st.fighters, key).id, exc |-> ""]
       ELSE IF r.exc # ""
       THEN [st |-> [st EXCEPT !.ctx = r.ctx], id |-> NoneN, exc |-> r.exc]
       ELSE [st |-> [st EXCEPT !.ctx = r.ctx,
                               !.fighters = DictPut(@, FighterEntry(key, r.id))],
             id |-> r.id, exc |-> ""]

\* lines 419-429: the winner; the dict is the one left by lines 395-417
DetermineWinner(fighters_dict, normalized, f1_key, f2_key, id1, id2) ==
    LET winner_key == normalize_name(normalized.winner_name)
    IN IF ~TruthyS(normalized.winner_name) THEN NoneN
       ELSE IF winner_key = f1_key THEN id1
       ELSE IF winner_key = f2_key THEN id2
       ELSE IF DictHas(fighters_dict, winner_key)
       THEN DictGet(fighters_dict, winner_key).id
       ELSE NoneN

\* the IntegrityError that names the CheckConstraint of fights
\* (fighter1_id != fighter2_id, name="different_fighters")
DifferentFightersError == "IntegrityError: different_fighters"

\* lines 431-446 writing the raw record's result over the fight it finds
FindOrCreateFightOverwrites(st, normalized, event, id1, id2, winner_id) ==
    LET ctx == st.ctx
        existing == find_by_fighters_and_event(ctx.fights, id1, id2, event.id)
        row == FightRow(NextId(ctx.fights, ctx.taken.fights), normalized, event, id1, id2,
                        winner_id)
    IN IF ctx.aborted
       THEN [st |-> st, exc |-> "PendingRollbackError"]
       ELSE IF Cardinality(existing) > 1
       THEN [st |-> st, exc |-> "MultipleResultsFound"]
       ELSE IF existing # {}
       THEN [st |-> [st EXCEPT !.ctx.result.fights_updated = @ + 1,
                               !.ctx.fights = (@ \ existing) \cup
                                   {FightRow((CHOOSE f \in existing : TRUE).id,
                                             normalized, event, id1, id2,
                                             winner_id)}],
             exc |-> ""]
       ELSE IF ~FightConstraintsOk(ctx.fighters, ctx.events, row)
       THEN [st |-> [st EXCEPT !.ctx.aborted = TRUE],
             exc |-> IF id1 = id2 THEN DifferentFightersError
                     ELSE "IntegrityError"]
       ELSE [st |-> [st EXCEPT !.ctx.fights = @ \cup {row},
                               !.ctx.result.fights_created = @ + 1],
             exc |-> ""]

\* lines 431-446: find the fight or create it
FindOrCreateFight(st, normalized, event, id1, id2, winner_id) ==
    LET ctx == st.ctx
        existing == find_by_fighters_and_event(ctx.fights, id1, id2, event.id)
        row == FightRow(NextId(ctx.fights, ctx.taken.fights), normalized, event, id1, id2,
                        winner_id)
    IN IF ctx.aborted
       THEN [st |-> st, exc |-> "PendingRollbackError"]
       ELSE IF Cardinality(existing) > 1
       THEN [st |-> st, exc |-> "MultipleResultsFound"]
       ELSE IF existing # {}
       THEN [st |-> [st EXCEPT !.ctx.result.fights_updated = @ + 1],
             exc |-> ""]
       ELSE IF ~FightConstraintsOk(ctx.fighters, ctx.events, row)
       THEN [st |-> [st EXCEPT !.ctx.aborted = TRUE],
             exc |-> IF id1 = id2 THEN DifferentFightersError
                     ELSE "IntegrityError"]
       ELSE [st |-> [st EXCEPT !.ctx.fights = @ \cup {row},
                               !.ctx.result.fights_created = @ + 1],
             exc |-> ""]

\* the except clause of the loop (lines 448-452)
FightFailed(st, raw, exc) ==
    [st EXCEPT !.ctx.result = result_add_error(@,
        ErrorLine("Failed to import fight",
                  FormatOpt(raw.fighter1_name) \o <<" ","v","s"," ">>
                      \o FormatOpt(raw.fighter2_name),
                  exc))]

\* the record is imported although its validation found errors
FightRejectedNever(validation) == FALSE

\* "if not validation.is_valid" (line 356)
FightRejected(validation) == ~validation.is_valid

\* one turn of the loop of import_fights (lines 352-452)
ImportFight(st, raw) ==
    LET validation == FightValidate(raw)
        normalized == FightNormalize(raw)
        f1_key == normalize_name(normalized.fighter1_name)
        f2_key == normalize_name(normalized.fighter2_name)
        Rejected(errors) ==
            [st EXCEPT !.ctx.result.errors = @ \o
                [k \in 1..Len(errors) |->
                    ErrorLine("Fight validation", <<>>, errors[k])]]
        \* lines 404-442: the winner, then find or create the fight
        Store(ev, r1, r2) ==
            LET Stored(r3) ==
                    IF r3.exc # "" THEN FightFailed(r3.st, raw, r3.exc)
                    ELSE r3.st
            IN Stored(FindOrCreateFight(r2.st, normalized, ev.event, r1.id,
                          r2.id,
                          DetermineWinner(r2.st.fighters, normalized, f1_key,
                                          f2_key, r1.id, r2.id)))
        \* lines 391-402: the second fighter
        Second(ev, r1) ==
            LET Resolved(r2) ==
                    IF r2.exc # "" THEN FightFailed(r2.st, raw, r2.exc)
                    ELSE Store(ev, r1, r2)
            IN Resolved(ResolveFighter(r1.st,
                            DictHas(ev.st.fighters, f2_key),
                            normalized.fighter2_name, f2_key,
                            normalized.weight_class))
        \* lines 379-390: the first fighter
        First(ev) ==
            LET Resolved(r1) ==
                    IF r1.exc # "" THEN FightFailed(r1.st, raw, r1.exc)
                    ELSE Second(ev, r1)
            IN Resolved(ResolveFighter(ev.st,
                            DictHas(ev.st.fighters, f1_key),
                            normalized.fighter1_name, f1_key,
                            normalized.weight_class))
        \* lines 361-377: the event of the fight
        WithEvent(ev) ==
            IF ev.exc # "" THEN FightFailed(ev.st, raw, ev.exc)
            ELSE IF ~ev.found
            THEN [st EXCEPT !.ctx.result = result_add_error(@,
                     ErrorLine("No event found for fight",
                               normalized.fighter1_name \o <<" ","v","s"," ">>
                                   \o normalized.fighter2_name,
                               ""))]
            ELSE First(ev)
    IN IF FightRejected(validation)
       THEN Rejected(validation.errors)
       ELSE WithEvent(ResolveEvent(st, normalized))

RECURSIVE ImportFightsLoop(_, _, _)
ImportFightsLoop(st, fights_in, i) ==
    IF i > Len(fights_in) THEN st
    ELSE ImportFightsLoop(ImportFight(st, fights_in[i]), fights_in, i + 1)

\* import_fights: returns the context (the list of Fight objects it also
\* returns is dropped by run_import)
import_fights(ctx, fights_in, fighters_dict, events_dict) ==
    ImportFightsLoop(
        [ctx |-> [ctx EXCEPT !.result.fights_processed = Len(fights_in)],
         fighters |-> fighters_dict, events |-> events_dict],
        fights_in, 1).ctx

-----------------------------------------------------------------------------
(* import_service.py : run_import                                          *)

\* the DataImport row added before the try block (lines 474-482)
DataImport(id) ==
    [id |-> id, import_type |-> "full", status |-> "running",
     records_processed |-> 0, records_created |-> 0, records_updated |-> 0,
     errors |-> [is_null |-> TRUE, lines |-> <<>>]]

\* "result.errors if result.errors else None" (line 513)
ErrorsOrNone(errors) == [is_null |-> errors = <<>>, lines |-> errors]

\* lines 502-513: the audit fields of a completed run
CompletedRecord(import_record, result) ==
    [import_record EXCEPT
        !.status = "completed",
        !.records_processed = result.fighters_processed
            + result.events_processed + result.fights_processed,
        !.records_created = result.fighters_created
            + result.events_created + result.fights_created,
        !.records_updated = result.fighters_updated
            + result.events_updated + result.fights_updated,
        !.errors = ErrorsOrNone(result.errors)]

\* lines 517-524: the except clause of run_import
FailedResult(result, exc) ==
    result_add_error([result EXCEPT !.status = "failed"],
                     ErrorLine("Import failed", <<>>, exc))

\* Where an exception is injected into a run: nowhere, in a fetch_* call of
\* the adapter (lines 486-488), in the commit of line 496, or in the commit
\* of line 515; in the last case the commit of line 527 either fails as
\* well or stores the failed audit record.
FailPoints == {"none", "fetch", "commit", "final_commit", "final_commit_saved"}

\* the rollback of line 518: the tables are the committed ones again
Rollback(db, ctx) == db

\* run_import on the committed tables db with the service's caches; returns
\* the committed tables, the caches and the ImportResult it leaves
run_import(db, fcache, ecache, adapter, fail) ==
    LET import_id == NextId(db.data_imports, {})
        import_record == DataImport(import_id)
        ctx0 == Ctx(db.fighters, db.events, db.fights, fcache, ecache)
        \* lines 496-531 on the session state ctx3 the three phases leave
        Finish(ctx3) ==
            LET Outcome(committed, completed, failed_late) ==
                    IF ctx3.aborted \/ fail = "commit"
                    THEN [db |-> Rollback(db, ctx3),
                          fighter_cache |-> ctx3.fighter_cache,
                          event_cache |-> ctx3.event_cache,
                          result |-> FailedResult(ctx3.result,
                                         IF ctx3.aborted THEN "PendingRollbackError"
                                         ELSE "OperationalError"),
                          import_id |-> import_id]
                    ELSE IF fail = "none"
                    THEN [db |-> [committed EXCEPT !.data_imports = db.data_imports
                                     \cup {CompletedRecord(import_record, completed)}],
                          fighter_cache |-> ctx3.fighter_cache,
                          event_cache |-> ctx3.event_cache,
                          result |-> completed, import_id |-> import_id]
                    ELSE [db |-> IF fail = "final_commit_saved"
                                 THEN [committed EXCEPT !.data_imports = db.data_imports
                                          \cup {[import_record EXCEPT
                                                   !.status = "failed",
                                                   !.errors = [is_null |-> FALSE,
                                                               lines |-> failed_late.errors]]}]
                                 ELSE committed,
                          fighter_cache |-> ctx3.fighter_cache,
                          event_cache |-> ctx3.event_cache,
                          result |-> failed_late, import_id |-> import_id]
            IN Outcome([fighters |-> ctx3.fighters, events |-> ctx3.events,
                        fights |-> ctx3.fights,
                        data_imports |-> db.data_imports \cup {import_record}],
                       [ctx3.result EXCEPT !.status = "completed"],
                       FailedResult([ctx3.result EXCEPT !.status = "completed"],
                                    "OperationalError"))
        \* lines 490-494: the three phases in order
        Fights(s1, s2) ==
            Finish(import_fights(s2.ctx, adapter.fights, s1.imported, s2.imported))
        Events(s1) == Fights(s1, import_events(s1.ctx, adapter.events))
    IN IF fail = "fetch"
       THEN [db |-> db, fighter_cache |-> fcache, event_cache |-> ecache,
             result |-> FailedResult(ImportResult, "AdapterError"),
             import_id |-> import_id]
       ELSE Events(import_fighters(ctx0, adapter.fighters))

-----------------------------------------------------------------------------
(* The import pipeline as a state machine                                  *)

MaxRuns == 2        \* run_import calls in one behaviour

\* event dates as day numbers: two past days and one after Today
PastDay == 19000
LaterPastDay == 19500
FutureDay == 20500

\* ---- raw fighters an adapter returns
RawAlBo == RawFighter(<<"a","l">>, <<"b","o">>)
RawAlBoRich ==
    [RawFighter(<<" ","A","L"," ">>, <<"B","O">>) EXCEPT
        !.nickname = <<"'","A","c","e","'">>, !.height_cm = 18004,
        !.nationality = <<" ","b","r","a","z","i","l">>, !.weight_class = "Lightweight"]
RawAlBoOther ==
    [RawFighter(<<"A","l">>, <<"B","o">>) EXCEPT
        !.nickname = <<"Z","e","d">>, !.height_cm = 17000, !.stance = <<"o","r","t","h","o">>]
RawNoName == RawFighter(<<>>, <<>>)
\* warnings only: an unusual height, an unknown weight class; its nickname
\* normalizes to the empty string
RawCyDi ==
    [RawFighter(<<"C","y">>, <<"D","i">>) EXCEPT
        !.height_cm = 30000, !.weight_class = "Superheavy", !.nickname = <<"'","'">>]
\* two names that normalize_name maps to the empty string
\* a later record of the same fighter that carries a nickname
RawCyDiNick ==
    [RawFighter(<<"C","y">>, <<"D","i">>) EXCEPT !.nickname = <<"C","y">>]
RawDot == RawFighter(<<".">>, <<>>)
RawBang == RawFighter(<<"!">>, <<>>)

\* ---- raw events
RawE1 == [RawEvent(<<"E","1">>, PastDay) EXCEPT !.is_completed = TRUE]
RawE1Venue ==
    [RawEvent(<<" ","e","1"," ">>, PastDay) EXCEPT !.venue = <<"A","p","e","x">>, !.country = <<"u","s","a">>]
RawNoNameEvent == RawEvent(<<>>, PastDay)
RawFutureDone == [RawEvent(<<"E","2">>, FutureDay) EXCEPT !.is_completed = TRUE]
RawUpcoming == RawEvent(<<"E","2">>, FutureDay)

\* ---- raw fights
RawFightAC ==
    [RawFight(<<"a","l"," ","b","o">>, <<"C","y"," ","D","i">>, "Lightweight") EXCEPT
        !.event_name = <<"E","1">>, !.event_date = PastDay,
        !.winner_name = <<"A","l"," ","B","o">>, !.result_method = <<"t","k","o">>, !.ending_round = 2]
\* the same pair in the other order on the same event, with another result
\* and warnings only (round 7, 4 scheduled rounds)
RawFightCA ==
    [RawFight(<<"C","Y"," ","D","I">>, <<"A","L"," ","B","O">>, "Lightweight") EXCEPT
        !.event_name = <<"e","1">>, !.event_date = PastDay, !.is_draw = TRUE,
        !.ending_round = 7, !.scheduled_rounds = 4]
RawFightSame ==
    [RawFight(<<"A","l"," ","B","o">>, <<"a","l"," "," ","b","o">>, "Lightweight") EXCEPT
        !.event_name = <<"E","1">>, !.event_date = PastDay]
RawFightNoClass ==
    [RawFight(<<"A","l"," ","B","o">>, <<"E","d"," ","F","o">>, NoneA) EXCEPT
        !.event_name = <<"E","1">>, !.event_date = PastDay]
RawFightNoEvent == RawFight(<<"A","l"," ","B","o">>, <<"C","y"," ","D","i">>, "Lightweight")
RawFightUpcoming ==
    [RawFight(<<"A","l"," ","B","o">>, <<"C","y"," ","D","i">>, "Lightweight") EXCEPT
        !.event_name = <<"E","2">>, !.event_date = FutureDay]
RawFightThirdWinner ==
    [RawFight(<<"C","y"," ","D","i">>, <<"E","d"," ","F","o">>, "Welterweight") EXCEPT
        !.event_name = <<"E","1">>, !.event_date = PastDay,
        !.winner_name = <<"A","l"," ","B","o">>, !.result_method = <<"S","U","B">>]

AdapterOutput(raw_fighters, raw_events, raw_fights) ==
    [fighters |-> raw_fighters, events |-> raw_events, fights |-> raw_fights]

\* what fetch_fighters, fetch_events and fetch_fights return in one run
AdapterOutputs ==
    {AdapterOutput(<<RawAlBo>>, <<RawE1>>, <<RawFightAC>>),
     AdapterOutput(<<RawAlBoRich, RawNoName>>, <<RawE1Venue, RawNoNameEvent>>,
                   <<RawFightCA, RawFightNoClass>>),
     AdapterOutput(<<RawAlBoOther, RawCyDi>>, <<>>,
                   <<RawFightSame, RawFightAC>>),
     AdapterOutput(<<RawDot, RawBang>>, <<RawFutureDone>>,
                   <<RawFightUpcoming>>),
     AdapterOutput(<<RawCyDi, RawAlBo>>, <<RawUpcoming, RawE1>>,
                   <<RawFightUpcoming, RawFightNoEvent>>),
     AdapterOutput(<<RawAlBo, RawCyDiNick>>, <<>>,
                   <<RawFightThirdWinner, RawFightAC>>)}

\* the committed tables as one record
Db == [fighters |-> fighters, events |-> events, fights |-> fights,
       snapshots |-> snapshots, data_imports |-> data_imports]

NoRun ==
    [adapter |-> AdapterOutput(<<>>, <<>>, <<>>), fail |-> "none",
     fresh |-> TRUE, result |-> [ImportResult EXCEPT !.status = "idle"],
     import_id |-> 0]

\* no calculate_all_snapshots call yet
NoCalc ==
    [run |-> 0, limit |-> NoneN, fail |-> "none", selected |-> <<>>,
     raised |-> FALSE,
     stats |-> [fights_processed |-> 0, snapshots_created |-> 0, errors |-> 0]]

Init ==
    /\ fighters = {}
    /\ events = {}
    /\ fights = {}
    /\ snapshots = {}
    /\ data_imports = {}
    /\ _fighter_cache = {}
    /\ _event_cache = {}
    /\ last_run = NoRun
    /\ last_calc = NoCalc
    /\ import_runs = 0
    /\ fight_history = <<>>
    /\ stats = CalculatedStats
    /\ pcStats = "idle"
    /\ PredictIdle
    /\ CallsIdle

\* a caller runs run_import on an adapter returning one of outputs, with an
\* exception injected at one of fails
RunImportOf(outputs, fails) ==
    /\ import_runs < MaxRuns
    /\ \E adapter \in outputs, fail \in fails :
        \E r \in {run_import(Db, _fighter_cache, _event_cache, adapter, fail)} :
           /\ fighters' = r.db.fighters
           /\ events' = r.db.events
           /\ fights' = r.db.fights
           /\ data_imports' = r.db.data_imports
           /\ _fighter_cache' = r.fighter_cache
           /\ _event_cache' = r.event_cache
           /\ last_run' = [adapter |-> adapter, fail |-> fail,
                           fresh |-> _fighter_cache = {} /\ _event_cache = {},
                           result |-> r.result, import_id |-> r.import_id]
           /\ import_runs' = import_runs + 1
           /\ UNCHANGED <<snapshots, last_calc, statsVars, predictVars,
                          callVars>>

RunImport == RunImportOf(AdapterOutputs, FailPoints)

\* a caller constructs a new ImportService (ImportService.__init__): the
\* next run starts with empty caches
NewService ==
    /\ _fighter_cache # {} \/ _event_cache # {}
    /\ _fighter_cache' = {}
    /\ _event_cache' = {}
    /\ UNCHANGED <<dbVars, last_run, last_calc, import_runs,
                   statsVars, predictVars, callVars>>

Next == RunImport \/ NewService

Spec == Init /\ [][Next]_vars

-----------------------------------------------------------------------------
(* Properties of the import pipeline                                       *)

\* a step of the state machine that is one run_import call
IsRunStep == import_runs' = import_runs + 1

\* the error list holds the line the except clause of run_import appends
HasImportFailedLine(result) ==
    \E k \in 1..Len(result.errors) : result.errors[k][1] = "Import failed"

\* the audit record of a run holds the counts of its ImportResult
AuditHoldsCounts(records, id, result) ==
    \E rec \in records :
        /\ rec.id = id
        /\ rec.status = "completed"
        /\ rec.records_processed = result.fighters_processed
               + result.events_processed + result.fights_processed
        /\ rec.records_created = result.fighters_created
               + result.events_created + result.fights_created
        /\ rec.records_updated = result.fighters_updated
               + result.events_updated + result.fights_updated

\* C3: a run_import that returns status failed leaves the fighters, events
\* and fights tables as they were before the run and lists the exception in
\* the result's errors; a run that returns completed has its audit record
\* stored with the processed/created/updated counts of the run; wherever
\* the exception is raised.
C3_FailedRunRolledBack ==
    [][IsRunStep =>
        /\ last_run'.result.status \in {"failed", "completed"}
        /\ last_run'.result.status = "failed" =>
              /\ fighters' = fighters
              /\ events' = events
              /\ fights' = fights
              /\ HasImportFailedLine(last_run'.result)
        /\ last_run'.result.status = "completed" =>
              AuditHoldsCounts(data_imports', last_run'.import_id,
                               last_run'.result)]_vars

\* at most one fighter per case-insensitive (first name, last name), one
\* event per (case-insensitive name, date), one fight per (event,
\* unordered pair of fighters)
UniqueByNaturalKey ==
    /\ \A f \in fighters, g \in fighters :
          (Lower(f.first_name) = Lower(g.first_name)
             /\ Lower(f.last_name) = Lower(g.last_name)) => f = g
    /\ \A e \in events, g \in events :
          (Lower(e.name) = Lower(g.name) /\ e.date = g.date) => e = g
    /\ \A f \in fights, g \in fights :
          (f.event_id = g.event_id
             /\ {f.fighter1_id, f.fighter2_id} = {g.fighter1_id, g.fighter2_id})
          => f = g

\* a completed run of the adapter output that the completed run before it
\* imported, on a service constructed for it
IsRerunStep ==
    /\ IsRunStep
    /\ last_run.result.status = "completed"
    /\ last_run'.result.status = "completed"
    /\ last_run'.adapter = last_run.adapter
    /\ last_run'.fresh

\* the rows of a run's own output are there after the rerun and none is new
RerunCreatesNothing ==
    /\ last_run'.result.fighters_created = 0
    /\ last_run'.result.events_created = 0
    /\ last_run'.result.fights_created = 0
    /\ {f.id : f \in fighters'} = {f.id : f \in fighters}
    /\ {e.id : e \in events'} = {e.id : e \in events}
    /\ {f.id : f \in fights'} = {f.id : f \in fights}

\* C4: after any sequence of sequential runs the natural keys are unique,
\* and a rerun of the same adapter output on a fresh service creates no
\* fighter, event or fight.
C4_IdempotentByNaturalKey ==
    [][UniqueByNaturalKey' /\ (IsRerunStep => RerunCreatesNothing)]_vars

\* the fields _update_fighter may write (lines 105-125), by their type
TextFields == {"nickname", "nationality", "hometown", "stance", "ufc_id",
               "espn_id"}
NumberFields == {"height_cm", "weight_kg", "reach_cm"}

\* the fields of a stored fighter no import writes
KeptFields(f) ==
    <<f.first_name, f.last_name, f.weight_class, f.leg_reach_cm, f.is_active>>

\* the values the normalized fighter records of a run carry for a field
Incoming(raws, x) == {FighterNormalize(raws[k])[x] : k \in 1..Len(raws)}

IsNullS(s) == s = NoneStr
IsNullN(n) == n = NoneN
IsEmptyS(s) == ~TruthyS(s)
IsEmptyN(n) == ~TruthyN(n)

\* row after is row before with fields written only where the stored
\* value was vacant and with a value one of the records raws carries
FilledOnlyVacant(before, after, raws, VacantS(_), VacantN(_)) ==
    /\ \A x \in TextFields :
          after[x] # before[x] =>
              VacantS(before[x]) /\ TruthyS(after[x])
                  /\ after[x] \in Incoming(raws, x)
    /\ \A x \in NumberFields :
          after[x] # before[x] =>
              VacantN(before[x]) /\ TruthyN(after[x])
                  /\ after[x] \in Incoming(raws, x)
    /\ after.date_of_birth # before.date_of_birth =>
          before.date_of_birth = NoneN
              /\ after.date_of_birth \in Incoming(raws, "date_of_birth") \ {NoneN}
    /\ KeptFields(after) = KeptFields(before)

\* every stored fighter is still stored and was only filled, and every
\* stored event is unchanged
StoredRowsOnlyFilled(VacantS(_), VacantN(_)) ==
    /\ \A f \in fighters : \E g \in fighters' :
          /\ g.id = f.id
          /\ FilledOnlyVacant(f, g, last_run'.adapter.fighters,
                              VacantS, VacantN)
    /\ \A e \in events : e \in events'

\* C5 as stated: a field of a stored fighter or event that holds a
\* non-null value is never changed by an import, and a field is written
\* only with a value the incoming record carries.
C5_NonNullNeverChanged ==
    [][IsRunStep => StoredRowsOnlyFilled(IsNullS, IsNullN)]_vars

\* C5 amended: a field of a stored fighter or event that holds a non-empty
\* value (not null, not the empty string, not 0) is never changed by an
\* import; a field is written only when the stored value is empty and the
\* incoming record carries a non-empty value for it.
C5_NonEmptyNeverChanged ==
    [][IsRunStep => StoredRowsOnlyFilled(IsEmptyS, IsEmptyN)]_vars

\* a completed run updated the stored fighter "Al Bo" from a record with
\* another nickname and height and a stance: the stance was filled, the
\* nickname and the height were kept
C5_Witness ==
    /\ last_run.result.status = "completed"
    /\ last_run.result.fighters_updated > 0
    /\ \E k \in 1..Len(last_run.adapter.fighters) :
          last_run.adapter.fighters[k] = RawAlBoOther
    /\ \E f \in fighters :
          /\ f.nickname = <<"A","c","e">>
          /\ f.height_cm = 18000
          /\ f.stance = Orthodox

\* the records of an adapter output that have no validation error
CleanOutput(adapter) ==
    AdapterOutput(
        SelectSeq(adapter.fighters, LAMBDA r : FighterValidate(r).errors = <<>>),
        SelectSeq(adapter.events, LAMBDA r : EventValidate(r).errors = <<>>),
        SelectSeq(adapter.fights, LAMBDA r : FightValidate(r).errors = <<>>))

\* is_valid is false exactly when the error list is non-empty
ValidIffNoErrors(adapter) ==
    /\ \A k \in 1..Len(adapter.fighters) :
          LET v == FighterValidate(adapter.fighters[k])
          IN v.is_valid <=> v.errors = <<>>
    /\ \A k \in 1..Len(adapter.events) :
          LET v == EventValidate(adapter.events[k])
          IN v.is_valid <=> v.errors = <<>>
    /\ \A k \in 1..Len(adapter.fights) :
          LET v == FightValidate(adapter.fights[k])
          IN v.is_valid <=> v.errors = <<>>

\* every validation error of every record is a line of the result's errors
ErrorsListed(adapter, result) ==
    LET lines == {result.errors[k] : k \in 1..Len(result.errors)}
        Listed(text, errors) ==
            \A m \in 1..Len(errors) :
                ErrorLine(text, <<>>, errors[m]) \in lines
    IN /\ \A k \in 1..Len(adapter.fighters) :
             Listed("Fighter validation",
                    FighterValidate(adapter.fighters[k]).errors)
       /\ \A k \in 1..Len(adapter.events) :
             Listed("Event validation",
                    EventValidate(adapter.events[k]).errors)
       /\ \A k \in 1..Len(adapter.fights) :
             Listed("Fight validation",
                    FightValidate(adapter.fights[k]).errors)

\* a fighter record with warnings and no error has its row after the run
WarnedFightersStored(adapter) ==
    \A k \in 1..Len(adapter.fighters) :
        LET v == FighterValidate(adapter.fighters[k])
            n == FighterNormalize(adapter.fighters[k])
        IN (v.errors = <<>> /\ v.warnings # <<>>) =>
              get_by_name(fighters', n.first_name, n.last_name) # {}

\* C6: in a run that gets past fetching, the records with a validation
\* error leave storage as the run without them leaves it, their messages
\* are in the result's errors, the other records are imported with the
\* same created and updated counts, and a record with warnings only is
\* imported; is_valid is false exactly when there is an error.
C6_RejectedRecordsSkipped ==
    [][(IsRunStep /\ last_run'.fail # "fetch") =>
        /\ ValidIffNoErrors(last_run'.adapter)
        /\ ErrorsListed(last_run'.adapter, last_run'.result)
        /\ \E r \in {run_import(Db, _fighter_cache, _event_cache,
                                CleanOutput(last_run'.adapter),
                                last_run'.fail)} :
              /\ fighters' = r.db.fighters
              /\ events' = r.db.events
              /\ fights' = r.db.fights
              /\ last_run'.result.status = r.result.status
              /\ last_run'.result.fighters_created = r.result.fighters_created
              /\ last_run'.result.fighters_updated = r.result.fighters_updated
              /\ last_run'.result.events_created = r.result.events_created
              /\ last_run'.result.events_updated = r.result.events_updated
              /\ last_run'.result.fights_created = r.result.fights_created
        /\ last_run'.result.status = "completed" =>
              WarnedFightersStored(last_run'.adapter)]_vars

\* a completed run of an output with a rejected fighter, event and fight:
\* their three messages are listed, and the clean fighter and the fight
\* with warnings only were created
C6_Witness ==
    /\ last_run.result.status = "completed"
    /\ \E k \in 1..Len(last_run.adapter.fighters) :
          last_run.adapter.fighters[k] = RawNoName
    /\ \E k \in 1..Len(last_run.adapter.fights) :
          last_run.adapter.fights[k] = RawFightNoClass
    /\ Len(last_run.result.errors) >= 3
    /\ last_run.result.fighters_created = 1
    /\ last_run.result.fights_created = 1
    /\ fights # {}

-----------------------------------------------------------------------------
(* snapshot_calculator.py : point-in-time snapshots                        *)

\* Event.date of the event a fight is joined with
EventDate(event_rows, fight) ==
    (CHOOSE e \in event_rows : e.id = fight.event_id).date

\* a cutoff that lets the fights of the cutoff date through
DateBeforeOrOn(event_date, before_date) == event_date <= before_date

\* "Event.date < before_date" (line 217)
DateBefore(event_date, before_date) == event_date < before_date

\* ORDER BY Event.date ASC: the rows as a list by ascending date; rows of
\* one date come in the order the database picks, here by tie[id]
RECURSIVE OrderByDate(_, _, _)
OrderByDate(rows, event_rows, tie) ==
    IF rows = {} THEN <<>>
    ELSE LET first == CHOOSE f \in rows : \A g \in rows :
                 \/ EventDate(event_rows, f) < EventDate(event_rows, g)
                 \/ /\ EventDate(event_rows, f) = EventDate(event_rows, g)
                    /\ tie[f.id] <= tie[g.id]
         IN <<first>> \o OrderByDate(rows \ {first}, event_rows, tie)

\* the orders a database may pick among the fights of a table
TieOrders(fight_rows) == Permutations({f.id : f \in fight_rows})

\* the record as a plausible slip would build it: a fight without a winner
\* is taken for a no contest
ToFightRecordNoWinnerIsNoContest(fight, fighter_id) ==
    [won |-> fight.winner_id = fighter_id, is_draw |-> fight.is_draw,
     is_no_contest |-> fight.is_no_contest \/ fight.winner_id = NoneN,
     result_method |-> fight.result_method,
     weight_class |-> fight.weight_class,
     is_title_fight |-> fight.is_title_fight,
     ending_round |-> fight.ending_round]

\* lines 222-243: the FightRecord of a fight for one of its fighters
ToFightRecord(fight, fighter_id) ==
    [won |-> fight.winner_id = fighter_id, is_draw |-> fight.is_draw,
     is_no_contest |-> fight.is_no_contest,
     result_method |-> fight.result_method,
     weight_class |-> fight.weight_class,
     is_title_fight |-> fight.is_title_fight,
     ending_round |-> fight.ending_round]

\* SnapshotCalculator.get_fighter_history(fighter_id, before_date)
get_fighter_history(fight_rows, event_rows, fighter_id, before_date, tie) ==
    LET selected ==
            {f \in fight_rows :
                /\ f.fighter1_id = fighter_id \/ f.fighter2_id = fighter_id
                /\ f.status = "completed"
                /\ before_date # NoneN =>
                      DateBefore(EventDate(event_rows, f), before_date)}
        Records(ordered) ==
            [k \in 1..Len(ordered) |-> ToFightRecord(ordered[k], fighter_id)]
    IN Records(OrderByDate(selected, event_rows, tie))

\* SnapshotCalculator.create_snapshot(fighter, fight): the FighterSnapshot
\* it adds to the session, with the id it gets
create_snapshot(fight_rows, event_rows, id, fighter_id, fight, tie) ==
    LET event_date == EventDate(event_rows, fight)
        Snapshot(st) ==
            [id |-> id, fighter_id |-> fighter_id, fight_id |-> fight.id,
             snapshot_date |-> event_date,
             wins |-> st.wins, losses |-> st.losses, draws |-> st.draws,
             no_contests |-> st.no_contests,
             finish_rate |-> st.finish_rate, ko_rate |-> st.ko_rate,
             submission_rate |-> st.submission_rate,
             win_streak |-> st.current_win_streak,
             loss_streak |-> st.current_lose_streak]
    IN Snapshot(calculate_stats(
           get_fighter_history(fight_rows, event_rows, fighter_id,
                               event_date, tie),
           fight.weight_class))

\* UniqueConstraint("fighter_id", "fight_id") of fighter_snapshots
UniqueSnapshotsOk(rows) ==
    \A s \in rows, t \in rows :
        (s.fighter_id = t.fighter_id /\ s.fight_id = t.fight_id) => s = t

\* a check that asks for a snapshot whatever is stored
NeedsSnapshotAlways(existing_fighter_ids, fighter_id) == TRUE

\* "if fight.fighterN_id not in existing_fighter_ids" (lines 474, 479)
NeedsSnapshot(existing_fighter_ids, fighter_id) ==
    fighter_id \notin existing_fighter_ids

\* Where an exception is injected into a run: nowhere, in the first or the
\* second create_snapshot call made for the first fight visited (the
\* history query raises and leaves the session usable), or in the commit
\* of line 490.
CalcFailPoints == {"none", "first_call", "second_call", "commit"}

\* the fights the query of lines 447-465 returns
SelectFights(db, limit, tie) ==
    LET Limited(ordered) ==
            IF TruthyN(limit)
            THEN SubSeq(ordered, 1, Min(limit, Len(ordered)))
            ELSE ordered
    IN Limited(OrderByDate({f \in db.fights : f.status = "completed"},
                           db.events, tie))

\* an except clause that swallows the exception without counting it
CaughtUncounted(a, raised) == a

\* the except clause of lines 483-485: the error is counted, and the loop
\* goes on
Caught(a, raised) ==
    IF raised THEN [a EXCEPT !.stats.errors = @ + 1] ELSE a

\* one turn of the loop of calculate_all_snapshots (lines 467-486); acc
\* holds the snapshots added to the session and the stats dict
SnapshotFight(acc, db, fight, i, tie, fail) ==
    LET existing_fighter_ids ==
            {s.fighter_id : s \in {x \in db.snapshots : x.fight_id = fight.id}}
        calls ==
            (IF NeedsSnapshot(existing_fighter_ids, fight.fighter1_id)
             THEN <<fight.fighter1_id>> ELSE <<>>)
            \o (IF NeedsSnapshot(existing_fighter_ids, fight.fighter2_id)
                THEN <<fight.fighter2_id>> ELSE <<>>)
        failing == IF i = 1 /\ fail = "first_call" THEN 1
                   ELSE IF i = 1 /\ fail = "second_call" THEN 2
                   ELSE 0
        raised == failing # 0 /\ failing <= Len(calls)
        made == IF raised THEN failing - 1 ELSE Len(calls)
        Call(a, k) ==
            IF k > made THEN a
            ELSE [a EXCEPT
                    !.added = @ \cup {create_snapshot(db.fights, db.events,
                                          NextId(db.snapshots \cup @, {}),
                                          calls[k], fight, tie)},
                    !.stats.snapshots_created = @ + 1]
        Visit(a) == Caught(Call(Call(a, 1), 2), raised)
    IN Visit([acc EXCEPT !.stats.fights_processed = @ + 1])

RECURSIVE SnapshotLoop(_, _, _, _, _, _)
SnapshotLoop(acc, db, selected, i, tie, fail) ==
    IF i > Len(selected) THEN acc
    ELSE SnapshotLoop(SnapshotFight(acc, db, selected[i], i, tie, fail),
                      db, selected, i + 1, tie, fail)

\* SnapshotCalculator.calculate_all_snapshots(limit) on the committed
\* tables db: the snapshots table it leaves, the fights it visited, the
\* dict it returns, and whether the commit raised instead
calculate_all_snapshots(db, limit, tie, fail) ==
    LET Commit(selected, acc) ==
            LET raised == fail = "commit"
                            \/ ~UniqueSnapshotsOk(db.snapshots \cup acc.added)
            IN [snapshots |-> IF raised THEN db.snapshots
                              ELSE db.snapshots \cup acc.added,
                selected |-> [k \in 1..Len(selected) |-> selected[k].id],
                raised |-> raised,
                stats |-> acc.stats]
        Run(selected) ==
            Commit(selected,
                   SnapshotLoop([added |-> {}, stats |-> NoCalc.stats],
                                db, selected, 1, tie, fail))
    IN Run(SelectFights(db, limit, tie))

-----------------------------------------------------------------------------
(* Imports and snapshot runs as a state machine                            *)

MaxCalcs == 2       \* calculate_all_snapshots calls in one behaviour

\* an event date before PastDay
EarlierPastDay == 18500

\* ---- what an adapter returns over time: events, and fights among
\* "Al Bo", "Cy Di" and "Ed Fo" (their fighters are created by import_fights)
RawE0 == [RawEvent(<<"E","0">>, EarlierPastDay) EXCEPT !.is_completed = TRUE]
RawE3 == [RawEvent(<<"E","3">>, LaterPastDay) EXCEPT !.is_completed = TRUE]
\* on E0 Cy Di beats Al Bo by decision
RawFightEarly ==
    [RawFight(<<"A","l"," ","B","o">>, <<"C","y"," ","D","i">>, "Lightweight") EXCEPT
        !.event_name = <<"E","0">>, !.event_date = EarlierPastDay,
        !.winner_name = <<"C","y"," ","D","i">>, !.result_method = <<"d","e","c">>, !.ending_round = 3]
\* on E1, the date of RawFightAC, Cy Di and Ed Fo draw
RawFightCE ==
    [RawFight(<<"C","y"," ","D","i">>, <<"E","d"," ","F","o">>, "Lightweight") EXCEPT
        !.event_name = <<"E","1">>, !.event_date = PastDay, !.is_draw = TRUE]
\* on E3 Ed Fo beats Al Bo by submission
RawFightAE ==
    [RawFight(<<"A","l"," ","B","o">>, <<"E","d"," ","F","o">>, "Lightweight") EXCEPT
        !.event_name = <<"E","3">>, !.event_date = LaterPastDay,
        !.winner_name = <<"E","d"," ","F","o">>, !.result_method = <<"s","u","b">>, !.ending_round = 1]

HistoryOutputs ==
    {AdapterOutput(<<>>, <<RawE1>>, <<RawFightAC, RawFightCE>>),
     AdapterOutput(<<>>, <<RawE3>>, <<RawFightAE>>),
     AdapterOutput(<<>>, <<RawE0, RawUpcoming>>,
                   <<RawFightEarly, RawFightUpcoming>>)}

\* the limit argument: None, or a number of fights
CalcLimits == {NoneN, 1, 2}

\* a caller imports one more part of the history
ImportHistory == RunImportOf(HistoryOutputs, {"none"})

\* a caller runs calculate_all_snapshots; tie is the order the database
\* returns fights of one date in during this call
CalculateAllSnapshots ==
    /\ last_calc.run < MaxCalcs
    /\ \E limit \in CalcLimits, fail \in CalcFailPoints,
          tie \in TieOrders(fights) :
        \E r \in {calculate_all_snapshots(Db, limit, tie, fail)} :
           /\ snapshots' = r.snapshots
           /\ last_calc' = [run |-> last_calc.run + 1, limit |-> limit,
                            fail |-> fail, selected |-> r.selected,
                            raised |-> r.raised, stats |-> r.stats]
           /\ UNCHANGED <<fighters, events, fights, data_imports,
                          _fighter_cache, _event_cache, last_run,
                          import_runs, statsVars, predictVars, callVars>>

NextSnap == ImportHistory \/ CalculateAllSnapshots

SpecSnap == Init /\ [][NextSnap]_vars

-----------------------------------------------------------------------------
(* Properties of the snapshots                                             *)

\* a step of the state machine that is one calculate_all_snapshots call
IsCalcStep == last_calc'.run = last_calc.run + 1

\* the stored fight with an id
FightOf(fight_rows, id) == CHOOSE f \in fight_rows : f.id = id

\* the completed fights of a fighter dated strictly before a fight
EarlierCompleted(fight_rows, event_rows, fighter_id, fight) ==
    {f \in fight_rows :
        /\ fighter_id \in {f.fighter1_id, f.fighter2_id}
        /\ f.status = "completed"
        /\ EventDate(event_rows, f) < EventDate(event_rows, fight)}

\* the record of a snapshot counts the fights of one set
CountsOf(s, counted) ==
    /\ s.no_contests = Cardinality({f \in counted : f.is_no_contest})
    /\ s.draws = Cardinality({f \in counted :
                                 ~f.is_no_contest /\ f.is_draw})
    /\ s.wins = Cardinality({f \in counted :
                                ~f.is_no_contest /\ ~f.is_draw
                                    /\ f.winner_id = s.fighter_id})
    /\ s.losses = Cardinality({f \in counted :
                                  ~f.is_no_contest /\ ~f.is_draw
                                      /\ f.winner_id # s.fighter_id})

\* the snapshots create_snapshot may make of the tables, over the orders
\* the database may pick
SnapshotChoices(fight_rows, event_rows, fighter_id, fight) ==
    {create_snapshot(fight_rows, event_rows, 0, fighter_id, fight, tie) :
        tie \in TieOrders(fight_rows)}

\* every snapshot a run adds is made of the fighter's completed fights
\* dated before the fight, and of nothing else
AddedFromEarlierOnly ==
    \A s \in snapshots' \ snapshots :
        LET fight == FightOf(fights, s.fight_id)
            earlier == EarlierCompleted(fights, events, s.fighter_id, fight)
        IN /\ s.snapshot_date = EventDate(events, fight)
           /\ CountsOf(s, earlier)
           /\ [s EXCEPT !.id = 0]
                 \in SnapshotChoices(earlier, events, s.fighter_id, fight)

\* an import that adds to a fighter's fights only fights dated on or after
\* a fight leaves what create_snapshot computes for that fight as it was
LaterFightsChangeNothing ==
    \A fight \in fights :
        \A fighter_id \in {fight.fighter1_id, fight.fighter2_id} :
            (\A f \in fights' \ fights :
                fighter_id \in {f.fighter1_id, f.fighter2_id} =>
                    EventDate(events', f) >= EventDate(events, fight))
            => SnapshotChoices(fights', events', fighter_id, fight)
                 = SnapshotChoices(fights, events, fighter_id, fight)

\* C1: the statistics create_snapshot(F, X) stores are computed from
\* exactly F's completed fights dated strictly before X: X itself, the
\* other fights of X's date and later fights never contribute, and
\* adding fights dated on or after X's date leaves the computed values
\* the same.
C1_OnlyEarlierFights ==
    [][/\ IsCalcStep => AddedFromEarlierOnly
       /\ IsRunStep => LaterFightsChangeNothing]_vars

\* a stored snapshot that counts an earlier fight of its fighter, who has
\* another completed fight on the date of the snapshot or later
C1_Witness ==
    \E s \in snapshots :
        /\ s.wins + s.losses + s.draws + s.no_contests >= 1
        /\ \E f \in fights :
              /\ f.id # s.fight_id
              /\ s.fighter_id \in {f.fighter1_id, f.fighter2_id}
              /\ f.status = "completed"
              /\ EventDate(events, f) >= s.snapshot_date

\* at most one stored snapshot per (fighter, fight)
OneSnapshotPerPair ==
    \A f \in fighters, x \in fights :
        Cardinality({s \in snapshots :
                        s.fighter_id = f.id /\ s.fight_id = x.id}) <= 1

\* both fighters of the fight with an id have their snapshot stored
HasBothSnapshots(id) ==
    \A fighter_id \in {FightOf(fights, id).fighter1_id,
                       FightOf(fights, id).fighter2_id} :
        \E s \in snapshots : s.fight_id = id /\ s.fighter_id = fighter_id

\* a run, with no failure of its commit injected, whose selected fights
\* all had both snapshots when it started
IsRepeatedCalcStep ==
    /\ IsCalcStep
    /\ last_calc'.fail # "commit"
    /\ \A k \in 1..Len(last_calc'.selected) :
          HasBothSnapshots(last_calc'.selected[k])

\* C2: after any sequence of calculate_all_snapshots runs and imports
\* there is at most one snapshot per (fighter, fight), and a run whose
\* selected fights all have both snapshots already returns
\* snapshots_created = 0 and adds no snapshot.
C2_SnapshotsOncePerPair ==
    [][/\ OneSnapshotPerPair'
       /\ IsRepeatedCalcStep =>
             /\ ~last_calc'.raised
             /\ last_calc'.stats.snapshots_created = 0
             /\ snapshots' = snapshots]_vars

\* a second run over fights that all have their snapshots: it visited
\* them and created nothing
C2_Witness ==
    /\ last_calc.run = 2
    /\ last_calc.fail = "none"
    /\ ~last_calc.raised
    /\ Len(last_calc.selected) >= 2
    /\ \A k \in 1..Len(last_calc.selected) :
          HasBothSnapshots(last_calc.selected[k])
    /\ last_calc.stats.snapshots_created = 0
    /\ last_calc.stats.fights_processed = Len(last_calc.selected)

-----------------------------------------------------------------------------
(* deduplicate_fighters harness: the lists it is applied to                *)

MaxList == 3        \* longest list given to deduplicate_fighters

\* records of one fighter as different sources spell them (a missing first
\* or last name, a shortened last name, another capitalisation), a record of
\* another fighter, and two names made of punctuation only
DedupRecords ==
    {RawFighter(<<>>, <<"B","o">>),
     RawFighter(<<"A","l">>, <<"B","o">>),
     RawFighter(<<"A","l">>, <<"B">>),
     [RawFighter(<<"A","l">>, <<"b","o">>) EXCEPT !.nickname = <<"A","b">>],
     RawFighter(<<"A","l">>, <<>>),
     RawFighter(<<"C","y">>, <<"D","i">>),
     RawFighter(<<".">>, <<>>),
     RawFighter(<<"!">>, <<>>)}

InitDedup ==
    /\ dedup_input \in BoundedSeq(DedupRecords, MaxList)
    /\ dedup_output = <<>>
    /\ dedup_again = <<>>
    /\ pcDedup = "input"
    /\ NameIdle
    /\ FormIdle
    /\ AdaptersIdle
    /\ ExtraIdle
    /\ fight_history = <<>>
    /\ stats = CalculatedStats
    /\ pcStats = "idle"
    /\ PredictIdle
    /\ PipelineIdle

\* a caller deduplicates the list (import_fighters line 251)
DedupOnce ==
    /\ pcDedup = "input"
    /\ dedup_output' = deduplicate_fighters(dedup_input)
    /\ pcDedup' = "once"
    /\ UNCHANGED <<dedup_input, dedup_again, nameVars, formVars, adapterVars, extraVars, statsVars,
                   predictVars, pipelineVars>>

\* a caller deduplicates the deduplicated list once more
DedupTwice ==
    /\ pcDedup = "once"
    /\ dedup_again' = deduplicate_fighters(dedup_output)
    /\ pcDedup' = "twice"
    /\ UNCHANGED <<dedup_input, dedup_output, nameVars, formVars, adapterVars, extraVars, statsVars,
                   predictVars, pipelineVars>>

NextDedup == DedupOnce \/ DedupTwice

SpecDedup == InitDedup /\ [][NextDedup]_vars

-----------------------------------------------------------------------------
(* Properties of the deduplication                                         *)

\* C12: deduplication is idempotent: a second pass over the output of a pass
\* returns that output unchanged, also when the first pass filled in a
\* missing first or last name.
C12_DedupIdempotent ==
    pcDedup = "twice" => dedup_again = dedup_output


\* the score of the names of the records i and j of a list reaches the
\* threshold
ScoresAsDuplicate(list, i, j) ==
    name_similarity(FullName(list[i].first_name, list[i].last_name),
                    FullName(list[j].first_name, list[j].last_name))
        >= SimilarityThreshold

\* the normalized full name of a record
NormalizedFullName(f) == normalize_name(FullName(f.first_name, f.last_name))

\* the elements of a set of indices in ascending order
RECURSIVE Ascending(_)
Ascending(S) ==
    IF S = {} THEN <<>>
    ELSE LET m == CHOOSE x \in S : \A y \in S : x <= y
         IN <<m>> \o Ascending(S \ {m})

\* record out is record in with nothing but empty fields filled in
KeepsPresentFields(out, in) ==
    \A x \in {"first_name", "last_name"} \cup TextFields :
        TruthyS(in[x]) => out[x] = in[x]

\* S are the indices of list that survive into out: no two of them score as
\* duplicates, every index left out scores as a duplicate of an earlier
\* survivor, and out holds the survivors in the order of list
SurvivorsOf(list, out, S) ==
    /\ \A i \in S, j \in S : i < j => ~ScoresAsDuplicate(list, i, j)
    /\ \A j \in (1..Len(list)) \ S :
          \E i \in S : i < j /\ ScoresAsDuplicate(list, i, j)
    /\ Len(out) = Cardinality(S)
    /\ \A m \in 1..Len(out) : KeepsPresentFields(out[m], list[Ascending(S)[m]])

\* no pair scoring at or above the threshold is kept whole, merges go into
\* an earlier survivor and the survivors keep their order
DuplicatesMergedAway(list, out) ==
    \E S \in SUBSET (1..Len(list)) : SurvivorsOf(list, out, S)

\* the records of list whose normalized full names pass the test and are
\* equal to each other leave one record in out
SameNameCollapses(list, out, Covered(_)) ==
    \A i \in 1..Len(list), j \in 1..Len(list) :
        (/\ i < j
         /\ Covered(NormalizedFullName(list[i]))
         /\ NormalizedFullName(list[i]) = NormalizedFullName(list[j]))
        => \E S \in SUBSET (1..Len(list)) :
              SurvivorsOf(list, out, S) /\ ~(i \in S /\ j \in S)

AnyName(n) == TRUE
NonEmptyName(n) == n # <<>>

-----------------------------------------------------------------------------
(* normalize_name harness: the strings it is applied to                    *)

MaxName == 3        \* longest string given to normalize_name

\* an upper-case and a lower-case letter, an accented letter, a space, a
\* character the regular expression removes and one it keeps
NameChars == {"A", "b", "e_acute", " ", ".", "-"}

InitName ==
    /\ name_input \in BoundedSeq(NameChars, MaxName)
    /\ name_output = <<>>
    /\ name_again = <<>>
    /\ pcName = "input"
    /\ DedupIdle
    /\ FormIdle
    /\ AdaptersIdle
    /\ ExtraIdle
    /\ fight_history = <<>>
    /\ stats = CalculatedStats
    /\ pcStats = "idle"
    /\ PredictIdle
    /\ PipelineIdle

\* a caller normalizes the string (name_similarity lines 43-44)
NormalizeOnce ==
    /\ pcName = "input"
    /\ name_output' = normalize_name(name_input)
    /\ pcName' = "once"
    /\ UNCHANGED <<name_input, name_again, dedupVars, formVars, adapterVars, extraVars, statsVars,
                   predictVars, pipelineVars>>

\* a caller normalizes the normalized string
NormalizeTwice ==
    /\ pcName = "once"
    /\ name_again' = normalize_name(name_output)
    /\ pcName' = "twice"
    /\ UNCHANGED <<name_input, name_output, dedupVars, formVars, adapterVars, extraVars, statsVars,
                   predictVars, pipelineVars>>

NextName == NormalizeOnce \/ NormalizeTwice

SpecName == InitName /\ [][NextName]_vars

\* C14: normalize_name is idempotent: normalizing a normalized string
\* returns it unchanged, for every input string.
C14_NormalizeIdempotent ==
    pcName = "twice" => name_again = name_output

-----------------------------------------------------------------------------
(* Imports of fight cards: how the names of a fight resolve to fighters    *)

\* a fight of E1 between two names, with no result
CardFight(fighter1_name, fighter2_name) ==
    [RawFight(fighter1_name, fighter2_name, "Lightweight") EXCEPT
        !.event_name = <<"E","1">>, !.event_date = PastDay]

\* names that differ in accent only (normalize to the same string)
RawFightAccent == CardFight(<<"e","l">>, <<"e_acute","l">>)
\* names that normalize differently: "" and " "
RawFightDots == CardFight(<<".">>, <<"."," ",".">>)
\* names that normalize differently: "al " and "al"
RawFightAlDot == CardFight(<<"A","l"," ",".">>, <<"A","l">>)
\* names that normalize differently: "al-bo" and "al bo"
RawFightHyphen == CardFight(<<"A","l","-","B","o">>, <<"a","l"," ","b","o">>)
\* one of two fighters whose names both normalize to "" against another
RawFightBangCy == CardFight(<<"!">>, <<"C","y"," ","D","i">>)
\* the two fighters whose names both normalize to ""
RawFightDotBang == CardFight(<<".">>, <<"!">>)

FightCardOutputs ==
    {AdapterOutput(<<>>, <<RawE1>>, <<RawFightSame, RawFightDots>>),
     AdapterOutput(<<RawDot, RawBang>>, <<RawE1>>,
                   <<RawFightBangCy, RawFightDotBang>>),
     AdapterOutput(<<RawAlBo>>, <<RawE1>>,
                   <<RawFightAccent, RawFightHyphen, RawFightAlDot>>)}

\* a caller imports a fight card; the first commit may raise
ImportFightCard == RunImportOf(FightCardOutputs, {"none", "commit"})

NextCards == ImportFightCard \/ NewService

SpecCards == Init /\ [][NextCards]_vars

\* the two names of a raw fight are given and normalize to the same string
SameNormalizedNames(raw) ==
    /\ TruthyS(raw.fighter1_name) /\ TruthyS(raw.fighter2_name)
    /\ normalize_name(raw.fighter1_name) = normalize_name(raw.fighter2_name)

\* the error lines of a result, as a set
ErrorLinesOf(result) == {result.errors[k] : k \in 1..Len(result.errors)}

\* C15: every stored fight references two different fighters: a raw fight
\* whose names normalize to the same string is rejected by validation, and
\* no fight with names that normalize differently resolves both names to one
\* fighter (which the CheckConstraint of fights would refuse).
C15_FightersDiffer ==
    [][/\ \A f \in fights' : f.fighter1_id # f.fighter2_id
       /\ (IsRunStep /\ last_run'.fail # "fetch") =>
            /\ \A k \in 1..Len(last_run'.adapter.fights) :
                 SameNormalizedNames(last_run'.adapter.fights[k]) =>
                    ErrorLine("Fight validation", <<>>,
                              "Fighter 1 and Fighter 2 cannot be the same")
                        \in ErrorLinesOf(last_run'.result)
            /\ \A e \in ErrorLinesOf(last_run'.result) :
                 e[3] # DifferentFightersError]_vars

\* a card with a fight of two spellings of one name and a fight of two names
\* that normalize differently (to "" and " ") was imported: one fight stored
C15_Witness ==
    /\ last_run # NoRun
    /\ last_run.fail = "none"
    /\ last_run.adapter.fights = <<RawFightSame, RawFightDots>>
    /\ last_run.result.fights_created = 1
    /\ Cardinality(fights) = 1
    /\ Cardinality(fighters) = 2


\* C16: every stored fight has status scheduled or completed, and a fight
\* stored as completed has a result_method and a winner_id or the draw or
\* no-contest flag.
C16_CompletedHasResult ==
    \A f \in fights :
        /\ f.status \in {"scheduled", "completed"}
        /\ f.status = "completed" =>
              /\ f.result_method # NoneStr
              /\ (f.winner_id # NoneN \/ f.is_draw \/ f.is_no_contest)


-----------------------------------------------------------------------------
(* Properties of the lookup caches                                         *)

\* the records import_fighters hands to its import loop (lines 240-252)
LookedUpFighters(adapter) ==
    deduplicate_fighters(
        ValidateFighters([result |-> ImportResult, valid_fighters |-> <<>>],
                         adapter.fighters, 1).valid_fighters)

\* what the first get-or-create of a run is given: the record is not in
\* storage, so import_fighters asks _get_or_create_fighter, which gets no
\* cache entry left by an earlier run and returns an entity that is stored
FirstLookupIsFresh(raw) ==
    LET r == _get_or_create_fighter(
                 Ctx(fighters, events, fights, _fighter_cache, _event_cache),
                 raw)
    IN get_by_name(fighters, raw.first_name, raw.last_name) = {} =>
          /\ ~DictHas(_fighter_cache,
                      normalize_name(FullName(raw.first_name, raw.last_name)))
          /\ r.exc = "" => \E f \in r.ctx.fighters : f.id = r.id

\* C18: the lookup caches are run-scoped: a run is never handed an entry
\* that an earlier run added, so after a run that failed and was rolled back
\* a later run on the same service never receives from the cache an entity
\* that is absent from storage.
C18_CachesRunScoped ==
    [][(IsRunStep /\ last_run'.fail # "fetch"
          /\ LookedUpFighters(last_run'.adapter) # <<>>)
        => FirstLookupIsFresh(LookedUpFighters(last_run'.adapter)[1])]_vars

-----------------------------------------------------------------------------
(* feature_extractor.py : _calculate_form_score, in hundredths             *)

\* weights = [0.35, 0.25, 0.20, 0.12, 0.08]
FormWeights == <<35, 25, 20, 12, 8>>

\* list(reversed(s))
Reversed(s) == [i \in 1..Len(s) |-> s[Len(s) + 1 - i]]

\* the loop of lines 173-178 over results[:5], from index i (0-based) on
RECURSIVE FormLoop(_, _, _)
FormLoop(results, i, score) ==
    IF i >= Min(5, Len(results)) THEN score
    ELSE LET weight == IF i < Len(FormWeights) THEN FormWeights[i + 1] ELSE 5
             result == results[i + 1]
         IN FormLoop(results, i + 1,
                     IF result = "W" THEN score + weight
                     ELSE IF result = "L" THEN score - weight
                     ELSE score)

\* _calculate_form_score weighting the results from the oldest on
_calculate_form_score_unreversed(recent_form) ==
    IF ~TruthyS(recent_form) THEN 0
    ELSE FormLoop(Upper(recent_form), 0, 0)

_calculate_form_score(recent_form) ==
    IF ~TruthyS(recent_form) THEN 0
    ELSE FormLoop(Reversed(Upper(recent_form)), 0, 0)

-----------------------------------------------------------------------------
(* _calculate_form_score harness: the strings it is applied to             *)

MaxForm == 6        \* longest recent-form string given to the function

\* wins, losses (one in lower case) and draws
FormChars == {"W", "L", "l", "D"}

\* recent_form with W and L exchanged
SwapWL(s) ==
    IF s = NoneStr THEN NoneStr
    ELSE [i \in 1..Len(s) |->
            CASE s[i] = "W" -> "L"
              [] s[i] = "L" -> "W"
              [] s[i] = "l" -> "w"
              [] OTHER -> s[i]]

InitForm ==
    /\ form_input \in BoundedSeq(FormChars, MaxForm) \cup {NoneStr}
    /\ form_score = 0
    /\ form_swapped = 0
    /\ pcForm = {}
    /\ DedupIdle
    /\ NameIdle
    /\ AdaptersIdle
    /\ ExtraIdle
    /\ fight_history = <<>>
    /\ stats = CalculatedStats
    /\ pcStats = "idle"
    /\ PredictIdle
    /\ PipelineIdle

\* extract_features scores the recent form of a snapshot (line 94)
ScoreForm ==
    /\ "score" \notin pcForm
    /\ form_score' = _calculate_form_score(form_input)
    /\ pcForm' = pcForm \cup {"score"}
    /\ UNCHANGED <<form_input, form_swapped, dedupVars, nameVars, adapterVars, extraVars, statsVars,
                   predictVars, pipelineVars>>

\* the same for the form with wins and losses exchanged
ScoreSwapped ==
    /\ "swapped" \notin pcForm
    /\ form_swapped' = _calculate_form_score(SwapWL(form_input))
    /\ pcForm' = pcForm \cup {"swapped"}
    /\ UNCHANGED <<form_input, form_score, dedupVars, nameVars, adapterVars, extraVars, statsVars,
                   predictVars, pipelineVars>>

NextForm == ScoreForm \/ ScoreSwapped

SpecForm == InitForm /\ [][NextForm]_vars

\* +1 for a win, -1 for a loss (in either case), 0 for anything else
ResultSign(c) ==
    IF c \in {"W", "w"} THEN 1 ELSE IF c \in {"L", "l"} THEN -1 ELSE 0

\* the signed weighted sum over the last five results of s, the weights
\* 0.35, 0.25, 0.20, 0.12, 0.08 counted from the last character back
RECURSIVE WeightedForm(_, _)
WeightedForm(s, k) ==
    IF k > 5 \/ k > Len(s) THEN 0
    ELSE <<35, 25, 20, 12, 8>>[k] * ResultSign(s[Len(s) + 1 - k])
            + WeightedForm(s, k + 1)

AllOf(c) == [i \in 1..5 |-> c]

\* C20: the form score is the signed weighted sum over the last five
\* characters of the string (weights 0.35, 0.25, 0.20, 0.12, 0.08 from the most
\* recent result back, plus for W, minus for L), so it lies in [-1, 1] and
\* exchanging W and L negates it; WWWWW scores above 0.8, LLLLL below -0.8,
\* an empty or missing string 0.
C20_FormScore ==
    /\ "score" \in pcForm =>
          /\ form_score = IF form_input = NoneStr THEN 0
                          ELSE WeightedForm(form_input, 1)
          /\ form_score \in -100..100
          /\ form_input = AllOf("W") => form_score > 80
          /\ form_input = AllOf("L") => form_score < -80
          /\ form_input \in {<<>>, NoneStr} => form_score = 0
    /\ pcForm = {"score", "swapped"} => form_swapped = -form_score

\* a string of six results was scored: the oldest one, a win, did not count
C20_Witness ==
    /\ pcForm = {"score", "swapped"}
    /\ form_input = <<"W", "L", "l", "D", "W", "L">>
    /\ form_score = -35 + 25 - 12 - 8
    /\ form_swapped = 30


-----------------------------------------------------------------------------
(* adapters/kaggle.py : the rows of the fights file                        *)

\* One row of the fights CSV, by the columns the adapter reads.  The date
\* column is kept as the day parse_date returns for it (NoneN where it
\* returns None), the round column as the int it parses to, the weight class
\* column as the class normalize_weight_class returns ("" for an empty cell).
KaggleRow(event, day, r_fighter, b_fighter, winner, method, weight_class) ==
    [event |-> event, date |-> day, r_fighter |-> r_fighter,
     b_fighter |-> b_fighter, winner |-> winner, method |-> method,
     round |-> NoneN, weight_class |-> weight_class]

\* ko_patterns after the two anchored ones, sub_patterns, decision_patterns
KoPatterns ==
    {<<"k","n","o","c","k","o","u","t">>,
     <<"p","u","n","c","h">>,
     <<"k","i","c","k">>,
     <<"k","n","e","e">>,
     <<"e","l","b","o","w">>}
SubPatterns ==
    {<<"s","u","b","m","i","s","s","i","o","n">>,
     <<"c","h","o","k","e">>,
     <<"a","r","m","b","a","r">>,
     <<"t","r","i","a","n","g","l","e">>,
     <<"g","u","i","l","l","o","t","i","n","e">>,
     <<"k","i","m","u","r","a">>,
     <<"a","m","e","r","i","c","a","n","a">>,
     <<"h","e","e","l"," ","h","o","o","k">>,
     <<"a","n","k","l","e"," ","l","o","c","k">>,
     <<"k","n","e","e","b","a","r">>}
DecisionPatterns ==
    {<<"d","e","c","i","s","i","o","n">>,
     <<"u","n","a","n","i","m","o","u","s">>,
     <<"s","p","l","i","t">>,
     <<"m","a","j","o","r","i","t","y">>}

\* parse_result_method(...)[0]: the method category
parse_result_method(method) ==
    LET stripped == Strip(method)
        method_lower == Lower(stripped)
        Found(patterns) == \E p \in patterns : Contains(p, method_lower)
    IN IF stripped = <<>> THEN NoneStr
       ELSE IF StartsWith(method_lower, <<"k","o">>)
               \/ StartsWith(method_lower, <<"t","k","o">>)
               \/ Found(KoPatterns)
       THEN <<"K","O","/","T","K","O">>
       ELSE IF Found(SubPatterns) THEN <<"S","u","b","m","i","s","s","i","o","n">>
       ELSE IF Found(DecisionPatterns)
       THEN IF Contains(<<"u","n","a","n","i","m","o","u","s">>, method_lower)
            THEN <<"D","e","c","i","s","i","o","n"," ","(","U","n","a","n","i","m","o","u","s",")">>
            ELSE IF Contains(<<"s","p","l","i","t">>, method_lower)
            THEN <<"D","e","c","i","s","i","o","n"," ","(","S","p","l","i","t",")">>
            ELSE IF Contains(<<"m","a","j","o","r","i","t","y">>, method_lower)
            THEN <<"D","e","c","i","s","i","o","n"," ","(","M","a","j","o","r","i","t","y",")">>
            ELSE <<"D","e","c","i","s","i","o","n">>
       ELSE stripped

\* the winner columns that stand for a draw, a no contest and the corners
DrawTokens == {<<"d","r","a","w">>, <<"d">>}
NoContestTokens == {<<"n","c">>, <<"n","o"," ","c","o","n","t","e","s","t">>}
RedTokens == {<<"r","e","d">>, <<"r">>, <<"w","i","n">>}
BlueTokens == {<<"b","l","u","e">>, <<"b">>, <<"l","o","s","s">>}

\* fetch_fights taking every winner column it does not know for a no contest
KaggleWinnerUnknownIsNoContest(winner, r_name, b_name) ==
    LET winner_lower == Lower(winner)
        Outcome(name, draw, nc) ==
            [winner_name |-> name, is_draw |-> draw, is_no_contest |-> nc]
    IN IF winner = <<>> THEN Outcome(NoneStr, FALSE, FALSE)
       ELSE IF winner_lower \in DrawTokens THEN Outcome(NoneStr, TRUE, FALSE)
       ELSE IF winner_lower \in RedTokens \/ winner_lower = Lower(r_name)
       THEN Outcome(r_name, FALSE, FALSE)
       ELSE IF winner_lower \in BlueTokens \/ winner_lower = Lower(b_name)
       THEN Outcome(b_name, FALSE, FALSE)
       ELSE Outcome(NoneStr, FALSE, TRUE)

\* lines 534-553 of fetch_fights: the winner of a row
KaggleWinner(winner, r_name, b_name) ==
    LET winner_lower == Lower(winner)
        Outcome(name, draw, nc) ==
            [winner_name |-> name, is_draw |-> draw, is_no_contest |-> nc]
    IN IF winner = <<>> THEN Outcome(NoneStr, FALSE, FALSE)
       ELSE IF winner_lower \in DrawTokens THEN Outcome(NoneStr, TRUE, FALSE)
       ELSE IF winner_lower \in NoContestTokens
       THEN Outcome(NoneStr, FALSE, TRUE)
       ELSE IF winner_lower \in RedTokens \/ winner_lower = Lower(r_name)
       THEN Outcome(r_name, FALSE, FALSE)
       ELSE IF winner_lower \in BlueTokens \/ winner_lower = Lower(b_name)
       THEN Outcome(b_name, FALSE, FALSE)
       ELSE Outcome(winner, FALSE, FALSE)

\* the RawFight fetch_fights appends for a row with both names (lines
\* 522-601), called without filters
KaggleFight(row) ==
    LET r_name == Strip(row.r_fighter)
        b_name == Strip(row.b_fighter)
        row_event == Strip(row.event)
        won == KaggleWinner(Strip(row.winner), r_name, b_name)
    IN [RawFight(r_name, b_name,
                 IF row.weight_class = "" THEN "Unknown" ELSE row.weight_class)
          EXCEPT !.event_name = IF row_event = <<>> THEN NoneStr ELSE row_event,
                 !.event_date = row.date,
                 !.winner_name = won.winner_name,
                 !.result_method = parse_result_method(row.method),
                 !.ending_round = row.round,
                 !.is_draw = won.is_draw,
                 !.is_no_contest = won.is_no_contest]

\* KaggleAdapter.fetch_fights on a file with these rows
RECURSIVE kaggle_fetch_fights(_)
kaggle_fetch_fights(rows) ==
    IF rows = <<>> THEN <<>>
    ELSE IF Strip(rows[1].r_fighter) = <<>> \/ Strip(rows[1].b_fighter) = <<>>
    THEN kaggle_fetch_fights(Tail(rows))
    ELSE <<KaggleFight(rows[1])>> \o kaggle_fetch_fights(Tail(rows))

\* _parse_fighter_from_row for the name in one corner
_parse_fighter_from_row(row, name) ==
    LET name_parts == SplitMax1(Strip(name))
    IN [RawFighter(IF Len(name_parts) > 0 THEN name_parts[1] ELSE <<>>,
                   IF Len(name_parts) > 1 THEN name_parts[2] ELSE <<>>)
          EXCEPT !.weight_class = IF row.weight_class = "" THEN NoneA
                                  ELSE row.weight_class]

\* KaggleAdapter.fetch_fighters: the first record of every name, in the
\* order of first appearance; seen holds the keys of fighters_dict
RECURSIVE kaggle_fetch_fighters(_, _)
kaggle_fetch_fighters(rows, seen) ==
    IF rows = <<>> THEN <<>>
    ELSE LET KeyOf(f) == Lower(Strip(FullName(f.first_name, f.last_name)))
             r_fighter == _parse_fighter_from_row(rows[1], rows[1].r_fighter)
             b_fighter == _parse_fighter_from_row(rows[1], rows[1].b_fighter)
             key_r == KeyOf(r_fighter)
             key_b == KeyOf(b_fighter)
             new_r == key_r # <<>> /\ key_r \notin seen
             new_b == key_b # <<>> /\ key_b \notin (seen \cup {key_r})
         IN (IF new_r THEN <<r_fighter>> ELSE <<>>)
              \o (IF new_b THEN <<b_fighter>> ELSE <<>>)
              \o kaggle_fetch_fighters(Tail(rows), seen \cup {key_r, key_b})

\* re.search(r"ufc\s+\d+", name_lower)
HasUfcNumber(name_lower) ==
    \E i \in 1..Len(name_lower), j \in 1..Len(name_lower) :
        /\ i + 3 < j
        /\ SubSeq(name_lower, i, i + 2) = <<"u","f","c">>
        /\ \A k \in (i + 3)..(j - 1) : name_lower[k] = " "
        /\ name_lower[j] \in Digits

\* the event type parsed from the name (lines 466-476)
KaggleEventType(event_name) ==
    LET name_lower == Lower(event_name)
    IN IF ~Contains(<<"u","f","c">>, name_lower) THEN NoneStr
       ELSE IF HasUfcNumber(name_lower) THEN <<"n","u","m","b","e","r","e","d">>
       ELSE IF Contains(<<"f","i","g","h","t"," ","n","i","g","h","t">>, name_lower)
               \/ Contains(<<"o","n"," ","e","s","p","n">>, name_lower)
               \/ Contains(<<"o","n"," ","f","o","x">>, name_lower)
       THEN <<"f","i","g","h","t","_","n","i","g","h","t">>
       ELSE NoneStr

\* KaggleAdapter.fetch_events without filters: the first row of every
\* (name, date); seen holds the keys of events_dict
RECURSIVE kaggle_fetch_events(_, _)
kaggle_fetch_events(rows, seen) ==
    IF rows = <<>> THEN <<>>
    ELSE LET event_name == Strip(rows[1].event)
             event_date == rows[1].date
             event_key == EventKey(event_name, event_date)
         IN IF event_name = <<>> \/ event_date = NoneN \/ event_key \in seen
            THEN kaggle_fetch_events(Tail(rows), seen)
            ELSE <<[RawEvent(event_name, event_date) EXCEPT
                       !.event_type = KaggleEventType(event_name),
                       !.is_completed = TRUE]>>
                   \o kaggle_fetch_events(Tail(rows), seen \cup {event_key})

\* what the three fetch_* calls of run_import return for a fights file
KaggleOutput(rows) ==
    AdapterOutput(kaggle_fetch_fighters(rows, {}),
                  kaggle_fetch_events(rows, {}),
                  kaggle_fetch_fights(rows))


-----------------------------------------------------------------------------
(* Imports of fights files through the Kaggle adapter                      *)

\* the winner column of the first row is "W"
FileTokenW ==
    <<KaggleRow(<<"E","1">>, PastDay,
              <<"A","l"," ","B","o">>, <<"C","y"," ","D","i">>,
              <<"W">>, <<"K","O">>, "Lightweight"),
      KaggleRow(<<"E","1">>, PastDay,
              <<"C","y"," ","D","i">>, <<"E","d"," ","F","o">>,
              <<"R","e","d">>, <<"D","e","c","i","s","i","o","n"," ","-"," ","U","n","a","n","i","m","o","u","s">>, "Welterweight")>>
\* a fighter named W, and a row of two others whose winner column is " w "
FileFighterW ==
    <<KaggleRow(<<"E","1">>, PastDay,
              <<"W">>, <<"C","y"," ","D","i">>,
              <<"b","l","u","e">>, <<"S","u","b","m","i","s","s","i","o","n">>, "Lightweight"),
      KaggleRow(<<"E","1">>, PastDay,
              <<" ","A","l"," ","B","o">>, <<"C","y"," ","D","i"," ">>,
              <<" ","w"," ">>, <<>>, "Lightweight"),
      KaggleRow(<<"U","F","C"," ","1">>, LaterPastDay,
              <<"E","d"," ","F","o">>, <<"A","l"," ","B","o">>,
              <<"d","r","a","w">>, <<>>, "Lightweight")>>
\* a row without a blue corner, and a winner column naming a third fighter
FileThirdName ==
    <<KaggleRow(<<"E","1">>, PastDay,
              <<"A","l"," ","B","o">>, <<>>,
              <<"W">>, <<"K","O">>, "Lightweight"),
      KaggleRow(<<"E","1">>, PastDay,
              <<"A","l"," ","B","o">>, <<"E","d"," ","F","o">>,
              <<"C","y"," ","D","i">>, <<>>, "Lightweight"),
      KaggleRow(<<"E","1">>, PastDay,
              <<"E","d"," ","F","o">>, <<"C","y"," ","D","i">>,
              <<"N","C">>, <<"O","v","e","r","t","u","r","n","e","d">>, "Welterweight")>>
\* "W" on a row without weight class, and the same pairing once more
FileRepeated ==
    <<KaggleRow(<<"E","2">>, LaterPastDay,
              <<"A","l"," ","B","o">>, <<"C","y"," ","D","i">>,
              <<"W">>, <<"G","u","i","l","l","o","t","i","n","e"," ","C","h","o","k","e">>, ""),
      KaggleRow(<<"E","2">>, LaterPastDay,
              <<"C","y"," ","D","i">>, <<"A","l"," ","B","o">>,
              <<"a","l"," ","b","o">>, <<"t","k","o">>, "Lightweight"),
      KaggleRow(<<"E","2">>, LaterPastDay,
              <<"E","d"," ","F","o">>, <<"C","y"," ","D","i">>,
              <<"l","o","s","s">>, <<"S","p","l","i","t">>, "Welterweight")>>

KaggleFiles == {FileTokenW, FileFighterW, FileThirdName, FileRepeated}

\* a caller runs run_import on a KaggleAdapter over one of the files; the
\* first commit may raise
ImportKaggleFile ==
    RunImportOf({KaggleOutput(rows) : rows \in KaggleFiles}, {"none", "commit"})

NextKaggle == ImportKaggleFile \/ NewService

SpecKaggle == Init /\ [][NextKaggle]_vars

\* the row has both names and a winner column that is no draw or no-contest
\* word, no corner word and neither fighter's name
UnrecognisedWinner(row) ==
    LET token == Lower(Strip(row.winner))
    IN /\ Strip(row.r_fighter) # <<>> /\ Strip(row.b_fighter) # <<>>
       /\ token # <<>>
       /\ token \notin DrawTokens \cup NoContestTokens \cup RedTokens
                          \cup BlueTokens
       /\ token # Lower(Strip(row.r_fighter))
       /\ token # Lower(Strip(row.b_fighter))

\* the raw fight was emitted for the row
EmittedFor(raw, row) ==
    /\ raw.fighter1_name = Strip(row.r_fighter)
    /\ raw.fighter2_name = Strip(row.b_fighter)
    /\ raw.event_name = Strip(row.event)
    /\ raw.event_date = row.date

\* a stored fight of the two named fighters on the named event
IsStoredFight(raw, db) ==
    \E f \in db.fights, a \in db.fighters, b \in db.fighters, e \in db.events :
        /\ f.fighter1_id = a.id /\ f.fighter2_id = b.id /\ f.event_id = e.id
        /\ {NormalizedFullName(a), NormalizedFullName(b)}
              = {normalize_name(raw.fighter1_name),
                 normalize_name(raw.fighter2_name)}
        /\ Lower(e.name) = Lower(raw.event_name) /\ e.date = raw.event_date

\* every object the service holds in its caches is a stored row
CachesStored ==
    /\ \A c \in _fighter_cache : \E f \in fighters : f.id = c.id
    /\ \A c \in _event_cache : \E e \in events : e.id = c.id

\* the state after a step, as Db is before it
DbAfter == [fighters |-> fighters', events |-> events', fights |-> fights']

\* C19: for a row whose winner column is no draw or no-contest word, no
\* corner word and neither fighter's name (such as "W"), the file adapter
\* emits the fight with is_draw = false and is_no_contest = false; a run over
\* a file with such a row, in which no commit raises and the service holds no
\* object of a rolled-back run, ends with status completed, reports no
\* "Import failed" and no fight error, and stores every fight of the file.
C19_UnknownWinnerImported ==
    [][\A rows \in KaggleFiles :
         (/\ IsRunStep
          /\ last_run'.adapter = KaggleOutput(rows)
          /\ \E k \in 1..Len(rows) : UnrecognisedWinner(rows[k])) =>
            /\ \A k \in 1..Len(rows) : UnrecognisedWinner(rows[k]) =>
                 /\ \E j \in 1..Len(last_run'.adapter.fights) :
                       EmittedFor(last_run'.adapter.fights[j], rows[k])
                 /\ \A j \in 1..Len(last_run'.adapter.fights) :
                       EmittedFor(last_run'.adapter.fights[j], rows[k]) =>
                          /\ ~last_run'.adapter.fights[j].is_draw
                          /\ ~last_run'.adapter.fights[j].is_no_contest
            /\ (last_run'.fail = "none" /\ CachesStored) =>
                 /\ last_run'.result.status = "completed"
                 /\ last_run'.result.errors = <<>>
                 /\ last_run'.result.fights_processed
                      = Len(last_run'.adapter.fights)
                 /\ last_run'.result.fights_created
                      + last_run'.result.fights_updated
                      = Len(last_run'.adapter.fights)
                 /\ \A j \in 1..Len(last_run'.adapter.fights) :
                       IsStoredFight(last_run'.adapter.fights[j], DbAfter)]_vars

\* the file whose first row has the winner "W" was imported: both fights are
\* stored, the first one without a winner
C19_Witness ==
    /\ last_run.adapter = KaggleOutput(FileTokenW)
    /\ last_run.fail = "none"
    /\ last_run.result.status = "completed"
    /\ last_run.result.fights_created = 2
    /\ \E f \in fights :
          /\ f.winner_id = NoneN /\ ~f.is_draw /\ ~f.is_no_contest
          /\ f.result_method # NoneStr
    /\ \E f \in fights : f.winner_id # NoneN


-----------------------------------------------------------------------------
(* adapters : what an operation returns or raises                          *)

\* how a call of an adapter operation ended: the class of the exception that
\* left it, or the value it returned (a list, a bool, None, or one event
\* kept as a list of one)
Returned(kind, list, flag) ==
    [raised |-> "", kind |-> kind, list |-> list, flag |-> flag]
ReturnedList(list) == Returned("list", list, FALSE)
ReturnedBool(flag) == Returned("bool", <<>>, flag)
ReturnedNone == Returned("none", <<>>, FALSE)
Raised(exc) == [raised |-> exc, kind |-> "", list |-> <<>>, flag |-> FALSE]

\* How a host answers a request: with the page, with an error status
\* (raise_for_status raises HTTPStatusError), or not at all (client.get
\* raises ConnectError or ReadTimeout).
HostStates == {"up", "error_status", "unreachable", "timeout"}

\* the exception of client.get / raise_for_status for a host state
RequestError(host) ==
    CASE host = "error_status" -> "HTTPStatusError"
      [] host = "unreachable" -> "ConnectError"
      [] host = "timeout" -> "ReadTimeout"
      [] OTHER -> ""

\* the classes "except httpx.HTTPError" catches among those
HTTPError == {"HTTPStatusError", "ConnectError", "ReadTimeout"}

\* a caught request: the handler returns None
NoResponse == [raised |-> "", is_none |-> TRUE, body |-> <<>>]

-----------------------------------------------------------------------------
(* adapters/kaggle.py : the operations on the fights file                  *)

\* KaggleAdapter.fetch_fighters / fetch_events / fetch_fights with the check
\* "if not fights_path.exists(): return []", fetch_upcoming_events of the
\* base class, and health_check
KaggleOps ==
    {"fetch_fighters", "fetch_events", "fetch_fights",
     "fetch_upcoming_events", "health_check"}

\* KaggleAdapter.health_check reporting True without looking at the file
kaggle_health_check_always(file) == ReturnedBool(TRUE)

kaggle_health_check(file) == ReturnedBool(file.exists)

KaggleOp(op, file) ==
    CASE op = "fetch_fighters" ->
            IF ~file.exists THEN ReturnedList(<<>>)
            ELSE ReturnedList(kaggle_fetch_fighters(file.rows, {}))
      [] op = "fetch_events" ->
            IF ~file.exists THEN ReturnedList(<<>>)
            ELSE ReturnedList(kaggle_fetch_events(file.rows, {}))
      [] op = "fetch_fights" ->
            IF ~file.exists THEN ReturnedList(<<>>)
            ELSE ReturnedList(kaggle_fetch_fights(file.rows))
      [] op = "fetch_upcoming_events" -> ReturnedList(<<>>)
      [] op = "health_check" -> kaggle_health_check(file)

-----------------------------------------------------------------------------
(* adapters/espn.py                                                        *)

\* The scoreboard of the ESPN API, by what _parse_event makes of its
\* entries (entries it returns None for are left out), and the card of an
\* event, by what _parse_fight makes of its competitions.
EspnPast == [RawEvent(<<"E","1">>, PastDay) EXCEPT !.espn_id = <<"1">>]
EspnNext == [RawEvent(<<"E","2">>, FutureDay) EXCEPT !.espn_id = <<"2">>]
EspnNoId == RawEvent(<<"E","3">>, FutureDay)
EspnScoreboard == <<EspnPast, EspnNext, EspnNoId>>
EspnCard == <<[RawFight(<<"A","l"," ","B","o">>, <<"C","y"," ","D","i">>, "Lightweight")
                 EXCEPT !.winner_name = <<"A","l"," ","B","o">>],
              RawFight(<<"C","y"," ","D","i">>, <<"E","d">>, "Welterweight")>>

\* _fetch_json catching HTTPStatusError only
_fetch_json_status_only(host, body) ==
    IF RequestError(host) = ""
    THEN [raised |-> "", is_none |-> FALSE, body |-> body]
    ELSE IF RequestError(host) = "HTTPStatusError" THEN NoResponse
    ELSE [raised |-> RequestError(host), is_none |-> TRUE, body |-> <<>>]

\* ESPNAdapter._fetch_json(endpoint), body being what the endpoint serves
_fetch_json(host, body) ==
    IF RequestError(host) = ""
    THEN [raised |-> "", is_none |-> FALSE, body |-> body]
    ELSE IF RequestError(host) \in HTTPError THEN NoResponse
    ELSE [raised |-> RequestError(host), is_none |-> TRUE, body |-> <<>>]

\* ESPNAdapter.fetch_events without filters
espn_fetch_events(host) ==
    LET data == _fetch_json(host, EspnScoreboard)
    IN IF data.raised # "" THEN Raised(data.raised)
       ELSE IF data.is_none THEN ReturnedList(<<>>)
       ELSE ReturnedList(data.body)

\* ESPNAdapter.fetch_upcoming_events
espn_fetch_upcoming_events(host) ==
    LET data == _fetch_json(host, EspnScoreboard)
        IsUpcoming(event) == event.event_date >= Today
    IN IF data.raised # "" THEN Raised(data.raised)
       ELSE IF data.is_none THEN ReturnedList(<<>>)
       ELSE ReturnedList(SelectSeq(data.body, IsUpcoming))

\* ESPNAdapter._fetch_event_fights(event_id)
_fetch_event_fights(host, event_id) ==
    LET data == _fetch_json(host, EspnCard)
    IN IF data.raised # "" THEN Raised(data.raised)
       ELSE IF data.is_none THEN ReturnedList(<<>>)
       ELSE ReturnedList(data.body)

\* the loop of fetch_fights over the events (lines 345-355): the fights of
\* every event with an id, with the event attached
RECURSIVE EspnEventFights(_, _)
EspnEventFights(host, event_list) ==
    IF event_list = <<>> THEN ReturnedList(<<>>)
    ELSE LET event == event_list[1]
             fetched == _fetch_event_fights(host, event.espn_id)
             rest == EspnEventFights(host, Tail(event_list))
             Attach(fight) == [fight EXCEPT !.event_name = event.name,
                                            !.event_date = event.event_date]
         IN IF ~TruthyS(event.espn_id) THEN rest
            ELSE IF fetched.raised # "" THEN fetched
            ELSE IF rest.raised # "" THEN rest
            ELSE ReturnedList([k \in 1..Len(fetched.list) |->
                                  Attach(fetched.list[k])] \o rest.list)

\* ESPNAdapter.fetch_fights without filters
espn_fetch_fights(host) ==
    LET fetched == espn_fetch_events(host)
    IN IF fetched.raised # "" THEN fetched
       ELSE EspnEventFights(host, fetched.list)

\* the fighters dict of fetch_fighters filled from a list of fights, in
\* insertion order
RECURSIVE EspnFighters(_, _)
EspnFighters(fight_list, seen) ==
    IF fight_list = <<>> THEN <<>>
    ELSE LET Fighter(name) ==
                 LET parts == IF name = <<>> THEN <<>> ELSE SplitMax1(Strip(name))
                 IN [RawFighter(IF Len(parts) > 0 THEN parts[1] ELSE <<>>,
                                IF Len(parts) > 1 THEN parts[2] ELSE <<>>)
                       EXCEPT !.weight_class = fight_list[1].weight_class]
             KeyOf(f) == Strip(Lower(FullName(f.first_name, f.last_name)))
             one == Fighter(fight_list[1].fighter1_name)
             two == Fighter(fight_list[1].fighter2_name)
             new_one == KeyOf(one) # <<>> /\ KeyOf(one) \notin seen
             new_two == KeyOf(two) # <<>> /\ KeyOf(two) \notin seen \cup {KeyOf(one)}
         IN (IF new_one THEN <<one>> ELSE <<>>)
              \o (IF new_two THEN <<two>> ELSE <<>>)
              \o EspnFighters(Tail(fight_list), seen \cup {KeyOf(one), KeyOf(two)})

\* ESPNAdapter.fetch_fighters
espn_fetch_fighters(host) ==
    LET upcoming == espn_fetch_upcoming_events(host)
        cards == EspnEventFights(host, upcoming.list)
    IN IF upcoming.raised # "" THEN upcoming
       ELSE IF cards.raised # "" THEN cards
       ELSE ReturnedList(EspnFighters(cards.list, {}))

\* ESPNAdapter.health_check
espn_health_check(host) ==
    LET data == _fetch_json(host, EspnScoreboard)
    IN IF data.raised # "" THEN Raised(data.raised)
       ELSE ReturnedBool(~data.is_none)

EspnOps ==
    {"fetch_fighters", "fetch_events", "fetch_fights",
     "fetch_upcoming_events", "health_check"}

EspnOp(op, host) ==
    CASE op = "fetch_fighters" -> espn_fetch_fighters(host)
      [] op = "fetch_events" -> espn_fetch_events(host)
      [] op = "fetch_fights" -> espn_fetch_fights(host)
      [] op = "fetch_upcoming_events" -> espn_fetch_upcoming_events(host)
      [] op = "health_check" -> espn_health_check(host)

-----------------------------------------------------------------------------
(* adapters/ufc.py                                                         *)

\* UFC.com: the slugs the links of the events page carry, the event
\* _parse_event_page makes of an event page (by slug; none for ufc-3) and
\* the fights _parse_fight_card makes of it.
UfcSlugs == <<<<"u","f","c","-","1">>, <<"u","f","c","-","2">>, <<"u","f","c","-","1">>, <<"u","f","c","-","3">>>>
UfcEventPage(slug) ==
    IF slug = <<"u","f","c","-","1">> THEN <<RawEvent(<<"U","F","C"," ","1">>, PastDay)>>
    ELSE IF slug = <<"u","f","c","-","2">> THEN <<RawEvent(<<"U","F","C"," ","2">>, FutureDay)>>
    ELSE <<>>
UfcCard == <<RawFight(<<"A","l"," ","B","o">>, <<"C","y"," ","D","i">>, "Lightweight")>>

\* UFCAdapter._fetch_html(url), body being what the url serves
_fetch_html(host, body) ==
    IF RequestError(host) = ""
    THEN [raised |-> "", is_none |-> FALSE, body |-> body]
    ELSE IF RequestError(host) \in HTTPError THEN NoResponse
    ELSE [raised |-> RequestError(host), is_none |-> TRUE, body |-> <<>>]

\* UFCAdapter.fetch_event_by_slug: the event, or None
fetch_event_by_slug(host, slug) ==
    LET html == _fetch_html(host, UfcEventPage(slug))
    IN IF html.raised # "" THEN Raised(html.raised)
       ELSE IF html.is_none \/ html.body = <<>> THEN ReturnedNone
       ELSE Returned("event", html.body, FALSE)

\* re.search(r"ufc\s*(\d+)", event_name.lower()): the first match as
\* <<start, first digit, last digit>>, or <<>>
UfcNumberMatch(name_lower) ==
    LET n == Len(name_lower)
        Starts == {i \in 1..n :
                     /\ i + 3 <= n
                     /\ SubSeq(name_lower, i, i + 2) = <<"u","f","c">>
                     /\ \E j \in (i + 3)..n :
                           /\ \A k \in (i + 3)..(j - 1) : name_lower[k] = " "
                           /\ name_lower[j] \in Digits}
        i == CHOOSE x \in Starts : \A y \in Starts : x <= y
        j == CHOOSE x \in (i + 3)..n :
                /\ name_lower[x] \in Digits
                /\ \A k \in (i + 3)..(x - 1) : name_lower[k] = " "
        e == CHOOSE x \in j..n :
                /\ \A k \in j..x : name_lower[k] \in Digits
                /\ (x = n \/ name_lower[x + 1] \notin Digits)
    IN IF Starts = {} THEN <<>> ELSE <<i, j, e>>

\* UFCAdapter._event_name_to_slug
_event_name_to_slug(event_name) ==
    LET name_lower == Lower(event_name)
        m == UfcNumberMatch(name_lower)
    IN IF event_name = <<>> \/ m = <<>> THEN NoneStr
       ELSE <<"u","f","c","-">> \o SubSeq(name_lower, m[2], m[3])

\* UFCAdapter.fetch_fight_card(event_name_or_slug)
fetch_fight_card(host, event_name_or_slug) ==
    LET slug == IF StartsWith(event_name_or_slug, <<"u","f","c","-">>)
                THEN event_name_or_slug
                ELSE _event_name_to_slug(event_name_or_slug)
        html == _fetch_html(host, UfcCard)
    IN IF ~TruthyS(slug) THEN ReturnedList(<<>>)
       ELSE IF html.raised # "" THEN Raised(html.raised)
       ELSE IF html.is_none THEN ReturnedList(<<>>)
       ELSE ReturnedList(html.body)

\* the loop of fetch_upcoming_events over the links (lines 623-633)
RECURSIVE UfcUpcoming(_, _, _)
UfcUpcoming(host, slugs, seen_slugs) ==
    IF slugs = <<>> THEN ReturnedList(<<>>)
    ELSE LET slug == slugs[1]
             fetched == fetch_event_by_slug(host, slug)
             rest == UfcUpcoming(host, Tail(slugs), seen_slugs \cup {slug})
         IN IF slug \in seen_slugs THEN rest
            ELSE IF fetched.raised # "" THEN fetched
            ELSE IF rest.raised # "" THEN rest
            ELSE IF fetched.kind = "event" /\ fetched.list[1].event_date >= Today
            THEN ReturnedList(fetched.list \o rest.list)
            ELSE rest

\* UFCAdapter.fetch_upcoming_events
ufc_fetch_upcoming_events(host) ==
    LET html == _fetch_html(host, UfcSlugs)
    IN IF html.raised # "" THEN Raised(html.raised)
       ELSE IF html.is_none THEN ReturnedList(<<>>)
       ELSE UfcUpcoming(host, html.body, {})

\* UFCAdapter.health_check
ufc_health_check(host) ==
    LET html == _fetch_html(host, UfcSlugs)
    IN IF html.raised # "" THEN Raised(html.raised)
       ELSE ReturnedBool(~html.is_none)

\* the operations of the interface, and the two of the scraper with an
\* argument: a slug, an event name with a number, one without
UfcOps ==
    {"fetch_fighters", "fetch_events", "fetch_fights",
     "fetch_upcoming_events", "health_check",
     "fetch_event_by_slug", "fetch_fight_card"}
UfcArguments ==
    {<<"u","f","c","-","2">>, <<"U","F","C"," ","1",":"," ","x">>, <<"F","i","g","h","t"," ","N","i","g","h","t">>}

UfcOp(op, host, argument) ==
    CASE op \in {"fetch_fighters", "fetch_events", "fetch_fights"} ->
            ReturnedList(<<>>)
      [] op = "fetch_upcoming_events" -> ufc_fetch_upcoming_events(host)
      [] op = "health_check" -> ufc_health_check(host)
      [] op = "fetch_event_by_slug" -> fetch_event_by_slug(host, argument)
      [] op = "fetch_fight_card" -> fetch_fight_card(host, argument)

-----------------------------------------------------------------------------
(* The adapters over sources that come and go                              *)

\* the fights file is written, replaced or removed
FileChanges ==
    /\ \E exists \in BOOLEAN, rows \in KaggleFiles :
          kaggle_file' = [exists |-> exists,
                          rows |-> IF exists THEN rows ELSE <<>>]
    /\ kaggle_file' # kaggle_file
    /\ UNCHANGED <<espn_host, ufc_host, adapter_call, dedupVars, nameVars,
                   formVars, extraVars, statsVars, predictVars, pipelineVars>>

\* a host goes down or comes back
HostChanges ==
    /\ \E espn \in HostStates, ufc \in HostStates :
          /\ espn_host' = espn
          /\ ufc_host' = ufc
    /\ <<espn_host', ufc_host'>> # <<espn_host, ufc_host>>
    /\ UNCHANGED <<kaggle_file, adapter_call, dedupVars, nameVars, formVars,
                   extraVars, statsVars, predictVars, pipelineVars>>

\* a call, with the state its source was in: "present" or "missing" for the
\* fights file, the state of the host for the other two
CallOf(adapter, op, source, outcome) ==
    [adapter |-> adapter, op |-> op, source |-> source] @@ outcome

KaggleCall ==
    /\ \E op \in KaggleOps :
          adapter_call' = CallOf("kaggle", op,
                                   IF kaggle_file.exists THEN "present"
                                   ELSE "missing",
                                   KaggleOp(op, kaggle_file))
    /\ UNCHANGED <<kaggle_file, espn_host, ufc_host, dedupVars, nameVars,
                   formVars, extraVars, statsVars, predictVars, pipelineVars>>

EspnCall ==
    /\ \E op \in EspnOps :
          adapter_call' = CallOf("espn", op, espn_host, EspnOp(op, espn_host))
    /\ UNCHANGED <<kaggle_file, espn_host, ufc_host, dedupVars, nameVars,
                   formVars, extraVars, statsVars, predictVars, pipelineVars>>

UfcCall ==
    /\ \E op \in UfcOps, argument \in UfcArguments :
          adapter_call' = CallOf("ufc", op, ufc_host,
                                   UfcOp(op, ufc_host, argument))
    /\ UNCHANGED <<kaggle_file, espn_host, ufc_host, dedupVars, nameVars,
                   formVars, extraVars, statsVars, predictVars, pipelineVars>>

InitAdapters ==
    /\ AdaptersIdle
    /\ ExtraIdle
    /\ DedupIdle
    /\ NameIdle
    /\ FormIdle
    /\ fight_history = <<>>
    /\ stats = CalculatedStats
    /\ pcStats = "idle"
    /\ PredictIdle
    /\ PipelineIdle

NextAdapters ==
    FileChanges \/ HostChanges \/ KaggleCall \/ EspnCall \/ UfcCall

SpecAdapters == InitAdapters /\ [][NextAdapters]_vars

\* an operation was called while the source of its adapter was unavailable
CalledUnavailable ==
    /\ adapter_call.adapter # ""
    /\ adapter_call.source \notin {"present", "up"}

-----------------------------------------------------------------------------
(* Properties of the stored winner                                         *)

\* C27: every stored fight has a winner_id that is null or the id of one of
\* its own two fighters, whatever winner name the raw record carries and
\* whatever other fighters the run imported.
C27_WinnerIsParticipant ==
    \A f \in fights :
        f.winner_id # NoneN => f.winner_id \in {f.fighter1_id, f.fighter2_id}


-----------------------------------------------------------------------------
(* Properties of the counters of a run                                     *)

\* the ids of a set of rows
IdsOf(rows) == {r.id : r \in rows}

\* the audit record of the last run, as a set of at most one row
AuditRecordOf(run, records) == {d \in records : d.id = run.import_id}

\* C29: at the end of every run_import that returns completed,
\* fighters_created, events_created and fights_created equal the number of
\* Fighter, Event and Fight rows the run inserted (those created while
\* importing fights included), so the audit record's records_created is the
\* number of rows created.
C29_CreatedCountsRows ==
    [][(IsRunStep /\ last_run'.result.status = "completed") =>
          /\ last_run'.result.fighters_created
                = Cardinality(IdsOf(fighters') \ IdsOf(fighters))
          /\ last_run'.result.events_created
                = Cardinality(IdsOf(events') \ IdsOf(events))
          /\ last_run'.result.fights_created
                = Cardinality(IdsOf(fights') \ IdsOf(fights))
          /\ \A d \in AuditRecordOf(last_run', data_imports') :
                d.records_created
                    = Cardinality(IdsOf(fighters') \ IdsOf(fighters))
                        + Cardinality(IdsOf(events') \ IdsOf(events))
                        + Cardinality(IdsOf(fights') \ IdsOf(fights))]_vars


-----------------------------------------------------------------------------
(* orchestrator.py : update_event_results                                  *)

\* the loop of lines 220-225: the fights of the card that carry a result
RECURSIVE CountResults(_)
CountResults(fights_data) ==
    IF fights_data = <<>> THEN 0
    ELSE (IF TruthyS(fights_data[1].winner_name) \/ fights_data[1].is_draw
             \/ fights_data[1].is_no_contest
          THEN 1 ELSE 0) + CountResults(Tail(fights_data))

\* PipelineOrchestrator.update_event_results(event_espn_id): the
\* ImportResult it returns; it adds and changes no row, so the commit of line
\* 227 writes nothing. commit_raises: the commit raises.
update_event_results(host, event_espn_id, commit_raises) ==
    LET fetched == _fetch_event_fights(host, event_espn_id)
        counted == [status |-> "running",
                    fights_processed |-> Len(fetched.list),
                    fights_updated |-> CountResults(fetched.list),
                    errors |-> <<>>]
        Failed(result, exc) ==
            [result EXCEPT !.status = "failed",
                           !.errors = Append(@, ErrorLine("Result update failed",
                                                          <<>>, exc))]
    IN IF fetched.raised # ""
       THEN Failed([counted EXCEPT !.fights_processed = 0], fetched.raised)
       ELSE IF commit_raises THEN Failed(counted, "OperationalError")
       ELSE [counted EXCEPT !.status = "completed"]

-----------------------------------------------------------------------------
(* Imports and result updates of fights that are already stored            *)

\* the scheduled fight of E2 once more, now with a result
RawFightUpcomingWon ==
    [RawFightUpcoming EXCEPT !.winner_name = <<"C","y"," ","D","i">>,
                             !.result_method = <<"k","o">>, !.ending_round = 1]
\* the fight of E1 once more, as a no contest
RawFightACNoContest ==
    [RawFightAC EXCEPT !.winner_name = NoneStr, !.is_no_contest = TRUE,
                       !.result_method = NoneStr]

ResultOutputs ==
    {AdapterOutput(<<RawAlBo, RawCyDi>>, <<RawUpcoming, RawE1>>,
                   <<RawFightUpcoming, RawFightAC>>),
     AdapterOutput(<<RawAlBo, RawCyDi>>, <<RawUpcoming, RawE1>>,
                   <<RawFightUpcomingWon, RawFightCA>>),
     AdapterOutput(<<RawCyDi>>, <<RawE1>>,
                   <<RawFightACNoContest, RawFightUpcomingWon>>)}

\* a caller imports a card and, later, the same card with results
ImportResults == RunImportOf(ResultOutputs, {"none", "commit"})

\* the ESPN API goes down or comes back
EspnHostChanges ==
    /\ \E host \in HostStates : espn_host' = host
    /\ espn_host' # espn_host
    /\ UNCHANGED <<kaggle_file, ufc_host, adapter_call, dedupVars, nameVars,
                   formVars, extraVars, statsVars, predictVars, pipelineVars>>

\* a caller runs update_event_results for an event
UpdateEventResults ==
    /\ \E event_espn_id \in {<<"1">>, <<"2">>}, commit_raises \in BOOLEAN :
          last_update' = update_event_results(espn_host, event_espn_id,
                                              commit_raises)
    /\ UNCHANGED <<dedupVars, nameVars, formVars, adapterVars, statsVars,
                   predictVars, pipelineVars, last_predicted, sessions,
                   cardVars>>

NextResults ==
    ImportResults \/ NewService \/ EspnHostChanges \/ UpdateEventResults

SpecResults == Init /\ [][NextResults]_vars

\* the batch record is valid and a fight of its event and its two fighters
\* (in either order) is stored in db
IsExistingFight(raw, db) ==
    /\ FightValidate(raw).is_valid
    /\ IsStoredFight(FightNormalize(raw), db)

\* the number of indices of a sequence that satisfy Test
CountWhere(seq, Test(_)) == Cardinality({k \in 1..Len(seq) : Test(seq[k])})

-----------------------------------------------------------------------------
(* Properties of rejected events                                           *)

\* the stored events with the name (compared as get_by_name_and_date does)
\* and date of a raw event
EventsNamed(event_rows, raw) ==
    {e \in event_rows :
        /\ Lower(e.name) = Lower(EventNormalize(raw).name)
        /\ e.date = raw.event_date}

\* C24: a raw event rejected by validation is not persisted in that run:
\* after the run an Event row with its name and date exists only if one
\* existed before the run, also when fights of the batch reference that name
\* and date.
C24_RejectedEventNotStored ==
    [][IsRunStep =>
         \A k \in 1..Len(last_run'.adapter.events) :
            ~EventValidate(last_run'.adapter.events[k]).is_valid =>
                (EventsNamed(events', last_run'.adapter.events[k]) # {}
                   => EventsNamed(events, last_run'.adapter.events[k]) # {})]_vars


-----------------------------------------------------------------------------
(* calculate_stats on histories, and on the histories of stored fights     *)

\* the pipeline of Init: nothing stored, no run made
PipelineEmpty ==
    /\ fighters = {}
    /\ events = {}
    /\ fights = {}
    /\ snapshots = {}
    /\ data_imports = {}
    /\ _fighter_cache = {}
    /\ _event_cache = {}
    /\ last_run = NoRun
    /\ last_calc = NoCalc
    /\ import_runs = 0

\* on E0 Al Bo and Cy Di fight, and the row carries no winner, no method
\* and no flag
RawFightUndecided ==
    [RawFight(<<"A","l"," ","B","o">>, <<"C","y"," ","D","i">>, "Lightweight") EXCEPT
        !.event_name = <<"E","0">>, !.event_date = EarlierPastDay]

UndecidedOutputs ==
    {AdapterOutput(<<>>, <<RawE0, RawE1>>, <<RawFightUndecided, RawFightAC>>),
     AdapterOutput(<<>>, <<RawE3, RawE1>>, <<RawFightAE, RawFightCE>>)}

InitCounts ==
    /\ fight_history \in BoundedSeq(HistRecords, MaxHist)
    /\ stats = CalculatedStats
    /\ pcStats = "input"
    /\ PipelineEmpty
    /\ PredictIdle
    /\ CallsIdle

\* The calculator's harness and the pipeline share no variable; the
\* pipeline is run in the behaviours whose harness holds the empty history.
ImportUndecided ==
    /\ fight_history = <<>>
    /\ RunImportOf(UndecidedOutputs, {"none"})

SnapshotsOfStored ==
    /\ fight_history = <<>>
    /\ CalculateAllSnapshots

NextCounts == CalcStats \/ ImportUndecided \/ SnapshotsOfStored

SpecCounts == InitCounts /\ [][NextCounts]_vars

\* the entries of a history that satisfy a test
EntriesWhere(h, Test(_)) == {i \in 1..Len(h) : Test(h[i])}

IsNoContest(f) == f.is_no_contest
IsDrawOnly(f) == ~f.is_no_contest /\ f.is_draw

\* C28: calculate_stats counts every history entry exactly once (wins +
\* losses + draws + no_contests is the length of the history), the KO,
\* submission and decision counters never sum to more than wins
\* (respectively losses), an entry that is no no-contest, no draw and not
\* won is a loss, and so a completed fight stored without a winner is a loss
\* in the snapshots of both its fighters.
C28_EveryEntryCountedOnce ==
    [][/\ pcStats' = "done" =>
            /\ stats'.wins + stats'.losses + stats'.draws + stats'.no_contests
                  = Len(fight_history)
            /\ stats'.no_contests
                  = Cardinality(EntriesWhere(fight_history, IsNoContest))
            /\ stats'.draws
                  = Cardinality(EntriesWhere(fight_history, IsDrawOnly))
            /\ stats'.wins = Cardinality(EntriesWhere(fight_history, IsWin))
            /\ stats'.losses = Cardinality(EntriesWhere(fight_history, IsLoss))
            /\ stats'.ko_wins + stats'.submission_wins + stats'.decision_wins
                  <= stats'.wins
            /\ stats'.ko_losses + stats'.submission_losses
                  + stats'.decision_losses <= stats'.losses
       /\ \A s \in snapshots' \ snapshots :
            LET earlier == EarlierCompleted(fights, events, s.fighter_id,
                                            FightOf(fights, s.fight_id))
            IN /\ s.wins + s.losses + s.draws + s.no_contests
                     = Cardinality(earlier)
               /\ s.losses >= Cardinality({f \in earlier :
                                   /\ f.winner_id = NoneN
                                   /\ ~f.is_draw /\ ~f.is_no_contest})]_vars

\* the fight stored without a winner is a loss in the snapshots of both its
\* fighters for their later fight
C28_Witness ==
    \E x \in fights, u \in fights :
        /\ u.winner_id = NoneN /\ ~u.is_draw /\ ~u.is_no_contest
        /\ u.status = "completed"
        /\ {u.fighter1_id, u.fighter2_id} = {x.fighter1_id, x.fighter2_id}
        /\ \A fighter_id \in {x.fighter1_id, x.fighter2_id} :
              \E s \in snapshots :
                 /\ s.fighter_id = fighter_id /\ s.fight_id = x.id
                 /\ s.losses = 1 /\ s.wins = 0


-----------------------------------------------------------------------------
(* A failure inside one fight of a calculate_all_snapshots batch           *)

\* both fighters of a fight have their snapshot in a table
BothIn(snapshot_rows, fight) ==
    \A fighter_id \in {fight.fighter1_id, fight.fighter2_id} :
        \E s \in snapshot_rows :
            s.fight_id = fight.id /\ s.fighter_id = fighter_id

\* the completed fights a run with a limit selects among
NumberSelected(limit) ==
    LET completed == Cardinality({f \in fights : f.status = "completed"})
    IN IF limit = NoneN THEN completed ELSE Min(limit, completed)

-----------------------------------------------------------------------------
(* Snapshots after an older fight arrives                                  *)

\* a calculate_all_snapshots call without limit that returned errors = 0
IsCleanFullCalcStep ==
    /\ IsCalcStep
    /\ last_calc'.limit = NoneN
    /\ ~last_calc'.raised
    /\ last_calc'.stats.errors = 0

\* C25: whenever calculate_all_snapshots finishes without a limit and with
\* errors = 0, every stored snapshot for (fighter F, fight X) counts F's
\* currently stored completed fights dated strictly before X, also when an
\* older completed fight of F was imported after the snapshot was created.
C25_SnapshotsFollowStoredFights ==
    [][IsCleanFullCalcStep =>
         \A s \in snapshots' :
            CountsOf(s, EarlierCompleted(fights, events, s.fighter_id,
                                         FightOf(fights, s.fight_id)))]_vars


-----------------------------------------------------------------------------
(* predict_fight over the stored fights and snapshots                      *)

MaxPredictions == 2     \* predict_fight calls in one behaviour

\* PredictionEngine._get_fighter_features(fighter, fight), lines 297-309:
\* the snapshots it may extract from. The one of this fight and fighter
\* when there is one, otherwise the fighter's snapshots with the largest
\* snapshot_date (max returns one of them); none when the fighter has no
\* snapshot.
SnapshotsUsed(db, fighter_id, fight) ==
    LET snapshot_map ==
            {s \in db.snapshots :
                s.fight_id = fight.id /\ s.fighter_id = fighter_id}
        own == {s \in db.snapshots : s.fighter_id = fighter_id}
    IN IF snapshot_map # {} THEN snapshot_map
       ELSE {s \in own : \A t \in own : t.snapshot_date <= s.snapshot_date}

\* total_fights of the features (feature_extractor.py line 72 for a
\* snapshot, line 142 for a fighter without one)
TotalFightsOf(used) ==
    IF used = <<>> THEN 0
    ELSE used[1].wins + used[1].losses + used[1].draws

\* PredictionEngine.predict_fight(fight_id) on the committed tables: the
\* error it raises, or the snapshot and total_fights behind each fighter's
\* features; pick1 and pick2 hold what max returned, and are empty for a
\* fighter without snapshot
predict_fight(db, fight_id, pick1, pick2, calls) ==
    LET Failed(error) ==
            [NoPrediction EXCEPT !.calls = calls, !.fight_id = fight_id,
                                 !.error = error]
        IdOf(pick) == IF pick = <<>> THEN NoneN ELSE pick[1].id
    IN IF ~\E f \in db.fights : f.id = fight_id
       THEN Failed("not found")
       ELSE IF FightOf(db.fights, fight_id).status = "completed"
       THEN Failed("is already completed")
       ELSE [calls |-> calls, fight_id |-> fight_id, error |-> "none",
             snapshot1 |-> IdOf(pick1), snapshot2 |-> IdOf(pick2),
             total_fights1 |-> TotalFightsOf(pick1),
             total_fights2 |-> TotalFightsOf(pick2)]

\* what max may return from a set of snapshots: one of them, nothing of none
PicksOf(used) == IF used = {} THEN {<<>>} ELSE {<<s>> : s \in used}

\* an id no fight has
MissingFightId == 0

\* a caller asks for the prediction of a fight
PredictFight ==
    /\ last_predicted.calls < MaxPredictions
    /\ \E fight_id \in {f.id : f \in fights} \cup {MissingFightId} :
          LET known == \E f \in fights : f.id = fight_id
              fight == FightOf(fights, fight_id)
          IN \E pick1 \in (IF known
                           THEN PicksOf(SnapshotsUsed(Db, fight.fighter1_id, fight))
                           ELSE {<<>>}),
                pick2 \in (IF known
                           THEN PicksOf(SnapshotsUsed(Db, fight.fighter2_id, fight))
                           ELSE {<<>>}) :
                last_predicted' = predict_fight(Db, fight_id, pick1, pick2,
                                                last_predicted.calls + 1)
    /\ UNCHANGED <<statsVars, predictVars, pipelineVars, dedupVars, nameVars,
                   formVars, adapterVars, last_update, sessions, cardVars>>

\* an event announced for EarlierPastDay that no source ever marked
\* completed, and its bout between Al Bo and Cy Di, without a result
RawAnnounced == RawEvent(<<"E","0">>, EarlierPastDay)
RawFightAnnounced ==
    [RawFight(<<"A","l"," ","B","o">>, <<"C","y"," ","D","i">>, "Lightweight") EXCEPT
        !.event_name = <<"E","0">>, !.event_date = EarlierPastDay]

ScheduleOutputs ==
    {AdapterOutput(<<>>, <<RawE1, RawE3>>, <<RawFightAC, RawFightAE>>),
     AdapterOutput(<<>>, <<RawAnnounced, RawUpcoming>>,
                   <<RawFightAnnounced, RawFightUpcoming>>)}

ImportSchedule == RunImportOf(ScheduleOutputs, {"none"})

NextEngine == ImportSchedule \/ CalculateAllSnapshots \/ PredictFight

SpecEngine == Init /\ [][NextEngine]_vars

\* a step that is one predict_fight call that returned a prediction
IsPredictionStep ==
    /\ last_predicted'.calls = last_predicted.calls + 1
    /\ last_predicted'.error = "none"

\* the stored snapshot with an id
SnapshotOf(snapshot_rows, id) == CHOOSE s \in snapshot_rows : s.id = id

\* C26: the features predict_fight uses for a scheduled fight X never
\* incorporate the result of a fight dated on or after X's event date:
\* the snapshot chosen for each fighter counts only fights of the fighter
\* dated strictly before X, so it counts no more fights than the fighter
\* has stored completed before X.
C26_NoLaterResultUsed ==
    [][IsPredictionStep =>
         LET X == FightOf(fights, last_predicted'.fight_id)
             Clean(fighter_id, id) ==
                 id # NoneN =>
                    LET s == SnapshotOf(snapshots, id)
                    IN s.wins + s.losses + s.draws + s.no_contests
                          <= Cardinality(EarlierCompleted(fights, events,
                                                          fighter_id, X))
         IN /\ Clean(X.fighter1_id, last_predicted'.snapshot1)
            /\ Clean(X.fighter2_id, last_predicted'.snapshot2)]_vars


-----------------------------------------------------------------------------
(* Import runs that overlap                                                *)

\* Each run has an AsyncSession and an ImportService of its own. A
\* statement of a session sees the committed rows and the rows the session
\* itself has flushed; the rows another session has flushed become visible
\* when that session commits. A run is taken phase by phase: its start
\* (lines 467-482), import_fighters, import_events, import_fights (lines
\* 490-494), and the commits and audit record of lines 496-531.

\* what the adapters of the overlapping runs return
RaceOutputs ==
    <<AdapterOutput(<<RawAlBo, RawCyDi>>, <<RawE1>>, <<RawFightAC>>),
      AdapterOutput(<<>>, <<>>, <<RawFightAE>>),
      AdapterOutput(<<RawAlBo>>, <<RawE3>>, <<>>)>>

\* the rows of a table as a session sees them: its own flushed rows, and
\* the committed rows it has not changed
Visible(committed, flushed) ==
    {c \in committed : \A p \in flushed : p.id # c.id} \cup flushed

\* the ids of what the other sessions have flushed
TakenBy(others) ==
    [fighters |-> UNION {{p.id : p \in sessions[q].pending.fighters} : q \in others},
     events |-> UNION {{p.id : p \in sessions[q].pending.events} : q \in others},
     fights |-> UNION {{p.id : p \in sessions[q].pending.fights} : q \in others}]

\* the context a phase of run r starts from
SessionCtx(r) ==
    LET s == sessions[r]
    IN [Ctx(Visible(fighters, s.pending.fighters),
            Visible(events, s.pending.events),
            Visible(fights, s.pending.fights),
            s.fighter_cache, s.event_cache) EXCEPT
          !.result = s.result[1], !.aborted = s.aborted,
          !.taken = TakenBy(Runs \ {r})]

\* the session of run r after a phase that left ctx: what it has flushed is
\* what differs from the committed rows
AfterPhase(r, ctx, pc) ==
    [sessions[r] EXCEPT
        !.pc = pc,
        !.pending = [fighters |-> ctx.fighters \ fighters,
                     events |-> ctx.events \ events,
                     fights |-> ctx.fights \ fights],
        !.fighter_cache = ctx.fighter_cache,
        !.event_cache = ctx.event_cache,
        !.result = <<ctx.result>>,
        !.aborted = ctx.aborted]

RaceUnchanged ==
    UNCHANGED <<statsVars, predictVars, snapshots, _fighter_cache,
                _event_cache, last_run, last_calc, import_runs, dedupVars,
                nameVars, formVars, adapterVars, last_update, last_predicted,
                cardVars>>

\* lines 467-488: run r begins and its adapter has returned
BeginRun(r) ==
    /\ sessions[r].pc = "idle"
    /\ \E input \in 1..Len(RaceOutputs) :
          sessions' = [sessions EXCEPT ![r] =
              [NoSession EXCEPT
                  !.pc = "fighters", !.input = input,
                  !.result = <<ImportResult>>,
                  !.began_after = {q \in Runs : sessions[q].pc = "done"}]]
    /\ UNCHANGED dbVars
    /\ RaceUnchanged

\* line 491: import_fighters of run r
FightersPhase(r) ==
    /\ sessions[r].pc = "fighters"
    /\ LET st == import_fighters(SessionCtx(r),
                                 RaceOutputs[sessions[r].input].fighters)
       IN sessions' = [sessions EXCEPT ![r] =
              [AfterPhase(r, st.ctx, "events") EXCEPT
                  !.fighters_dict = st.imported]]
    /\ UNCHANGED dbVars
    /\ RaceUnchanged

\* line 492: import_events of run r
EventsPhase(r) ==
    /\ sessions[r].pc = "events"
    /\ LET st == import_events(SessionCtx(r),
                               RaceOutputs[sessions[r].input].events)
       IN sessions' = [sessions EXCEPT ![r] =
              [AfterPhase(r, st.ctx, "fights") EXCEPT
                  !.events_dict = st.imported]]
    /\ UNCHANGED dbVars
    /\ RaceUnchanged

\* line 493: import_fights of run r
FightsPhase(r) ==
    /\ sessions[r].pc = "fights"
    /\ LET ctx == import_fights(SessionCtx(r),
                                RaceOutputs[sessions[r].input].fights,
                                sessions[r].fighters_dict,
                                sessions[r].events_dict)
       IN sessions' = [sessions EXCEPT ![r] = AfterPhase(r, ctx, "commit")]
    /\ UNCHANGED dbVars
    /\ RaceUnchanged

\* lines 496-531: run r commits what it has flushed together with its
\* completed audit record, or rolls back when a flush had failed and
\* commits the failed audit record
CommitRun(r) ==
    /\ sessions[r].pc = "commit"
    /\ LET s == sessions[r]
           import_record == DataImport(NextId(data_imports, {}))
           completed == [s.result[1] EXCEPT !.status = "completed"]
           failed == FailedResult(s.result[1], "PendingRollbackError")
       IN IF s.aborted
          THEN /\ data_imports' = data_imports \cup
                     {[import_record EXCEPT
                          !.status = "failed",
                          !.errors = [is_null |-> FALSE,
                                      lines |-> failed.errors]]}
               /\ sessions' = [sessions EXCEPT ![r] =
                     [s EXCEPT !.pc = "done", !.result = <<failed>>,
                               !.pending = NoSession.pending]]
               /\ UNCHANGED <<fighters, events, fights>>
          ELSE /\ fighters' = Visible(fighters, s.pending.fighters)
               /\ events' = Visible(events, s.pending.events)
               /\ fights' = Visible(fights, s.pending.fights)
               /\ data_imports' = data_imports \cup
                     {CompletedRecord(import_record, completed)}
               /\ sessions' = [sessions EXCEPT ![r] =
                     [s EXCEPT !.pc = "done", !.result = <<completed>>,
                               !.pending = NoSession.pending]]
    /\ RaceUnchanged

NextRace ==
    \E r \in Runs :
        \/ BeginRun(r)
        \/ FightersPhase(r)
        \/ EventsPhase(r)
        \/ FightsPhase(r)
        \/ CommitRun(r)

SpecRace == Init /\ [][NextRace]_vars

\* two committed fighters of one name, events of one name and date, fights
\* of one event and pair of fighters (by name and date, as the raw record
\* names them)
SameFighterKey(f, g) ==
    Lower(f.first_name) = Lower(g.first_name)
        /\ Lower(f.last_name) = Lower(g.last_name)
SameEventKey(e, g) == Lower(e.name) = Lower(g.name) /\ e.date = g.date
FighterOf(id) == CHOOSE f \in fighters : f.id = id
EventOf(id) == CHOOSE e \in events : e.id = id
SameFightKey(x, y) ==
    /\ SameEventKey(EventOf(x.event_id), EventOf(y.event_id))
    /\ \/ /\ SameFighterKey(FighterOf(x.fighter1_id), FighterOf(y.fighter1_id))
          /\ SameFighterKey(FighterOf(x.fighter2_id), FighterOf(y.fighter2_id))
       \/ /\ SameFighterKey(FighterOf(x.fighter1_id), FighterOf(y.fighter2_id))
          /\ SameFighterKey(FighterOf(x.fighter2_id), FighterOf(y.fighter1_id))

DuplicateFighters ==
    \E f \in fighters, g \in fighters : f.id # g.id /\ SameFighterKey(f, g)
DuplicateEvents ==
    \E e \in events, g \in events : e.id # g.id /\ SameEventKey(e, g)
DuplicateFights ==
    \E x \in fights, y \in fights : x.id # y.id /\ SameFightKey(x, y)

\* two runs of which neither began after the other was done
Overlapped(r, q) ==
    /\ r # q
    /\ sessions[r].pc # "idle" /\ sessions[q].pc # "idle"
    /\ q \notin sessions[r].began_after
    /\ r \notin sessions[q].began_after

\* C23: the import service does not serialize natural-key get-or-create.
\* Runs that interleave can both miss the lookup of one natural key and both
\* create a row, so two fighters, two events or two fights of one natural
\* key get committed (no uniqueness constraint of the storage covers these
\* keys); it is the overlap that does it: rows of one natural key are
\* committed twice only when two runs overlapped.
C23_DuplicatesFromOverlapOnly ==
    (DuplicateFighters \/ DuplicateEvents \/ DuplicateFights) =>
        \E r \in Runs, q \in Runs : Overlapped(r, q)

\* both runs were given the same input, both completed, and the fighters,
\* the event and the fight of the input are committed twice
C23_Witness ==
    /\ \E r \in Runs, q \in Runs :
          /\ Overlapped(r, q)
          /\ \A x \in {r, q} :
                /\ sessions[x].pc = "done"
                /\ sessions[x].input = 1
                /\ sessions[x].result[1].status = "completed"
                /\ sessions[x].result[1].fighters_created = 2
                /\ sessions[x].result[1].events_created = 1
                /\ sessions[x].result[1].fights_created = 1
    /\ DuplicateFighters
    /\ DuplicateEvents
    /\ DuplicateFights


-----------------------------------------------------------------------------
(* ufc.py : the fight card of an event page                                *)

MaxCard == 3        \* most bouts _parse_fight_card_fallback returns

\* a RawFight as _parse_fight_card_fallback builds it (lines 556-567), with
\* the two fields of the card
ScrapedFight(fighter1_name, fighter2_name, is_title) ==
    [is_main_event |-> FALSE, fight_order |-> 0]
        @@ [RawFight(fighter1_name, fighter2_name, "Unknown") EXCEPT
               !.is_title_fight = is_title,
               !.scheduled_rounds = IF is_title THEN 5 ELSE 3]

\* bouts as a page may list them: a bout, the same bout with the corners
\* exchanged and first names spelled differently, a title bout, a bout of
\* two fighters of one last name, and a bout of a fighter with one name
CardBouts ==
    {ScrapedFight(<<"A","l"," ","B","o">>, <<"C","y"," ","D","i">>, FALSE),
     ScrapedFight(<<"C","."," ","D","i">>, <<"A","L"," ","B","O">>, FALSE),
     ScrapedFight(<<"E","d"," ","F","o">>, <<"C","y"," ","D","i">>, TRUE),
     ScrapedFight(<<"E","d"," ","F","o">>, <<"A","l"," ","B","o">>, FALSE),
     ScrapedFight(<<"E","d"," ","B","o">>, <<"A","l"," ","B","o">>, FALSE),
     ScrapedFight(<<"F","o">>, <<"A","l"," ","B","o">>, FALSE)}

\* lines 518 and 555: the fallback numbers the bouts it finds from 1
Numbered(card) ==
    [k \in 1..Len(card) |-> [card[k] EXCEPT !.fight_order = k]]

\* get_last_name (lines 364-367)
get_last_name(name) == LastWord(Strip(Lower(name)))

\* len(name.split())
WordCount(s) == Cardinality(WordStarts(s))

RECURSIVE ValidFights(_)
\* lines 369-376: the bouts whose fighters both have two names or more
ValidFights(card) ==
    IF card = <<>> THEN <<>>
    ELSE (IF /\ WordCount(Head(card).fighter1_name) >= 2
             /\ WordCount(Head(card).fighter2_name) >= 2
          THEN <<Head(card)>> ELSE <<>>)
             \o ValidFights(Tail(card))

\* frozenset([last1, last2]) of a bout
Matchup(fight) ==
    {get_last_name(fight.fighter1_name), get_last_name(fight.fighter2_name)}

RECURSIVE UniqueFights(_, _, _)
\* lines 378-394: the first bout of every pair of last names
UniqueFights(valid_fights, i, seen_matchups) ==
    IF i > Len(valid_fights) THEN <<>>
    ELSE LET fight == valid_fights[i]
             last1 == get_last_name(fight.fighter1_name)
             last2 == get_last_name(fight.fighter2_name)
         IN IF last1 = <<>> \/ last2 = <<>> \/ last1 = last2
            THEN UniqueFights(valid_fights, i + 1, seen_matchups)
            ELSE IF Matchup(fight) \in seen_matchups
            THEN UniqueFights(valid_fights, i + 1, seen_matchups)
            ELSE <<fight>> \o UniqueFights(valid_fights, i + 1,
                                  seen_matchups \cup {Matchup(fight)})

\* lines 396-402: the bouts renumbered
Renumbered(unique_fights) ==
    LET total == Len(unique_fights)
    IN [k \in 1..total |->
          LET fight_order == total - (k - 1)
              is_main_event == fight_order = 1
              fight == unique_fights[k]
          IN [fight EXCEPT
                !.fight_order = fight_order,
                !.is_main_event = is_main_event,
                !.scheduled_rounds =
                    IF is_main_event \/ fight.is_title_fight THEN 5 ELSE @]]

\* UFCAdapter._parse_fight_card on the bouts the fallback found
_parse_fight_card(card) == Renumbered(UniqueFights(ValidFights(card), 1, {}))

InitScrape ==
    /\ card_fights \in {Numbered(card) : card \in BoundedSeq(CardBouts, MaxCard)}
    /\ card_parsed = NotParsed
    /\ last_update = [status |-> "idle", fights_processed |-> 0,
                      fights_updated |-> 0, errors |-> <<>>]
    /\ last_predicted = NoPrediction
    /\ sessions = [r \in Runs |-> NoSession]
    /\ DedupIdle
    /\ NameIdle
    /\ FormIdle
    /\ AdaptersIdle
    /\ fight_history = <<>>
    /\ stats = CalculatedStats
    /\ pcStats = "idle"
    /\ PredictIdle
    /\ PipelineIdle

ParseFightCard ==
    /\ ~card_parsed.returned
    /\ card_parsed' = [returned |-> TRUE,
                       fights |-> _parse_fight_card(card_fights)]
    /\ UNCHANGED <<card_fights, statsVars, predictVars, pipelineVars,
                   dedupVars, nameVars, formVars, adapterVars, last_update,
                   last_predicted, sessions>>

SpecScrape == InitScrape /\ [][ParseFightCard]_vars

\* C21: after de-duplication of a scraped fight card with n >= 1 fights
\* the fight_order values are exactly 1..n, exactly one fight is marked
\* main event, that fight is the first bout of the de-duplicated list, and
\* it has scheduled_rounds = 5.
C21_FirstBoutIsMainEvent ==
    (card_parsed.returned /\ Len(card_parsed.fights) >= 1) =>
        LET out == card_parsed.fights
            n == Len(out)
        IN /\ {out[k].fight_order : k \in 1..n} = 1..n
           /\ Cardinality({k \in 1..n : out[k].is_main_event}) = 1
           /\ out[1].is_main_event
           /\ out[1].scheduled_rounds = 5

=============================================================================
